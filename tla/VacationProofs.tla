---------------------------- MODULE VacationProofs ----------------------------
(***************************************************************************)
(* Proofs about Vacation, for every set of devices and configurations,     *)
(* every cooldown, horizon and number of events.                           *)
(***************************************************************************)
EXTENDS Vacation, TLAPS

USE VacationBounds DEF Never

-----------------------------------------------------------------------------
(* Types *)

LEMMA ConfigType ==
  ASSUME config \in Configs
  PROVE  /\ config.devices \subseteq Device
         /\ config.min \in Gap /\ config.max \in Gap
         /\ Defaults.devices \subseteq Device
  BY ConfigsAssumption DEF Config, Defaults

LEMMA OppositeType == \A s : Opposite(s) \in Relay
  BY DEF Opposite, Relay

\* The plan drawn within a tick.
LEMMA DrawType ==
  ASSUME NEW m \in Time, NEW g, g.min \in Gap, g.max \in Gap
  PROVE  /\ DrawNext(m, g) \subseteq 0 .. Horizon + MaxGap
         /\ \A t \in DrawNext(m, g) : t \in Nat /\ t >= m + g.min
         /\ m + Cooldown \in 0 .. Horizon + Cooldown
  BY DEF DrawNext, Time, Gap

\* The one drawn with the intervals of the tick.
LEMMA TickDraw ==
  ASSUME TypeOK
  PROVE  /\ DrawNext(tickNow, gaps) \subseteq 0 .. Horizon + MaxGap
         /\ \A t \in DrawNext(tickNow, gaps) :
              t \in Nat /\ t >= tickNow + gaps.min
         /\ tickNow + Cooldown \in 0 .. Horizon + Cooldown
         /\ gaps.min \in Gap
<1>1. tickNow \in Time /\ gaps.min \in Gap /\ gaps.max \in Gap
  BY DEF TypeOK, Gaps
<1> QED BY <1>1, DrawType

\* What a start and the end of a window begin with.
LEMMA FreshType ==
  /\ Forget \in [Device -> {Never} \cup 0 .. Horizon + MaxGap]
  /\ Forget \in [Device -> {Never} \cup 0 .. Horizon + Cooldown]
  /\ Forget \in [Device -> {Never} \cup Time]
  /\ [d \in Device |-> "none"] \in [Device -> Relay \cup {"none"}]
  /\ [d \in Device |-> "off"] \in [Device -> Relay]
  /\ [d \in Device |-> "idle"] \in
       [Device -> {"idle", "send", "read", "ok", "failed"}]
  /\ 0 \in Time /\ 0 \in 0 .. MaxEvents /\ "off" \in Relay
  BY DEF Forget, Relay, Time

\* There is a configuration, so a minute is within the bound of the intervals.
LEMMA NoGapsType ==
  NoGaps \in Gaps /\ [d \in Device |-> 0] \in [Device -> 0 .. MaxGap]
<1>1. PICK c \in Configs : c.min \in Gap
  BY ConfigsAssumption DEF Config
<1>2. 1 \in Gap
  BY <1>1 DEF Gap
<1> QED BY <1>2 DEF NoGaps, Gaps

LEMMA TypeInit == Init => TypeOK
<1> SUFFICES ASSUME Init PROVE TypeOK
  OBVIOUS
<1> QED BY FreshType, NoGapsType DEF Init, TypeOK

\* What the history notes of a command sent.
LEMMA FlipNoted ==
  ASSUME TypeOK, NEW d \in Device, NoteFlip(d)
  PROVE  /\ lastFlip' \in [Device -> {Never} \cup Time]
         /\ promise' \in [Device -> 0 .. MaxGap]
  BY TickDraw DEF NoteFlip, TypeOK, Gap

LEMMA TypeNext == TypeOK /\ [Next]_vars => TypeOK'
<1> SUFFICES ASSUME TypeOK, [Next]_vars PROVE TypeOK'
  OBVIOUS
<1> USE DEF worldVars, taskVars, memoryVars, histVars, paceVars
<1>1. CASE BeginTick
  <2>1. nextToggle' \in [Device -> {Never} \cup 0 .. Horizon + MaxGap]
    <3>1. PICK draw \in [Unplanned(config.devices, now)
                             -> DrawNext(now, config)] :
            nextToggle' = [d \in Device |->
                             IF d \in DOMAIN draw THEN draw[d]
                                                  ELSE nextToggle[d]]
      BY <1>1 DEF BeginTick
    <3>2. DrawNext(now, config) \subseteq 0 .. Horizon + MaxGap
      BY DrawType, ConfigType DEF TypeOK
    <3> QED BY <3>1, <3>2 DEF TypeOK
  <2>2. ids' \subseteq Device /\ due' \subseteq Device
    BY <1>1, ConfigType DEF BeginTick, DueDevices, TypeOK
  <2>3. gaps' \in Gaps
    BY <1>1, ConfigType DEF BeginTick, Gaps, TypeOK
  <2>4. promise' \in [Device -> 0 .. MaxGap]
    BY <1>1, ConfigType DEF BeginTick, Gap, TypeOK
  <2> QED BY <1>1, <2>1, <2>2, <2>3, <2>4 DEF BeginTick, TypeOK
<1>2. ASSUME NEW c \in {config, Defaults}, BeginClose(c) PROVE TypeOK'
  <2>1. ids' \subseteq Device /\ lit' \subseteq Device
    BY <1>2, ConfigType DEF BeginClose, TypeOK
  <2>2. events' \in 0 .. MaxEvents
    BY <1>2 DEF BeginClose, Loaded, Event, TypeOK
  <2> QED BY <1>2, <2>1, <2>2 DEF BeginClose, TypeOK, Relay
<1>3. ASSUME NEW d \in Device, BackOff(d) PROVE TypeOK'
  <2>1. PICK t \in DrawNext(tickNow, gaps) :
          nextToggle' = [nextToggle EXCEPT ![d] = t]
    BY <1>3 DEF BackOff
  <2>2. nextToggle' \in [Device -> {Never} \cup 0 .. Horizon + MaxGap]
    BY <2>1, TickDraw DEF TypeOK
  <2>3. cooldown' \in [Device -> {Never} \cup 0 .. Horizon + Cooldown]
    BY <1>3, TickDraw DEF BackOff, TypeOK
  <2>4. /\ expected' \in [Device -> Relay \cup {"none"}]
        /\ noticed' \in [Device -> {Never} \cup Time]
    BY <1>3 DEF BackOff, TypeOK
  <2> QED BY <1>3, <2>2, <2>3, <2>4 DEF BackOff, TypeOK
<1>4. ASSUME NEW d \in Device, StartToggle(d) PROVE TypeOK'
  BY <1>4, OppositeType DEF StartToggle, TypeOK
<1>5. ASSUME NEW d \in Device, Switch(d) PROVE TypeOK'
  <2>1. /\ lastFlip' \in [Device -> {Never} \cup Time]
        /\ promise' \in [Device -> 0 .. MaxGap]
    BY <1>5, FlipNoted DEF Switch
  <2>2. /\ live' \in [Device -> Relay] /\ lit' \subseteq Device
        /\ phase' \in [Device -> {"idle", "send", "read", "ok", "failed"}]
    BY <1>5 DEF Switch, TypeOK
  <2> QED BY <1>5, <2>1, <2>2 DEF Switch, TypeOK
<1>6. ASSUME NEW d \in Device, SwitchFails(d) PROVE TypeOK'
  <2>1. live' \in [Device -> Relay]
    BY <1>6 DEF SwitchFails, TypeOK
  <2>2. events' \in 0 .. MaxEvents
    BY <1>6 DEF SwitchFails, Event, TypeOK
  <2>3. /\ lastFlip' \in [Device -> {Never} \cup Time]
        /\ promise' \in [Device -> 0 .. MaxGap]
    BY <1>6, FlipNoted DEF SwitchFails
  <2>4. /\ lit' \subseteq Device /\ troubled' \subseteq Device
        /\ phase' \in [Device -> {"idle", "send", "read", "ok", "failed"}]
    BY <1>6 DEF SwitchFails, TypeOK
  <2> QED BY <1>6, <2>1, <2>2, <2>3, <2>4 DEF SwitchFails, TypeOK
<1>7. ASSUME NEW d \in Device, ReadBack(d) PROVE TypeOK'
  <2>1. events' \in 0 .. MaxEvents /\ cached' \in [Device -> Relay]
        /\ troubled' \subseteq Device /\ lit' \subseteq Device
    BY <1>7 DEF ReadBack, Event, TypeOK
  <2> QED BY <1>7, <2>1 DEF ReadBack, TypeOK
<1>8. ASSUME NEW d \in Device, EndToggle(d) PROVE TypeOK'
  <2>1. PICK t \in DrawNext(tickNow, gaps) :
          nextToggle' = [nextToggle EXCEPT ![d] = t]
    BY <1>8 DEF EndToggle
  <2>2. nextToggle' \in [Device -> {Never} \cup 0 .. Horizon + MaxGap]
    BY <2>1, TickDraw DEF TypeOK
  <2> QED BY <1>8, <2>2 DEF EndToggle, TypeOK, Relay
<1>9. CASE EndTick
  BY <1>9, FreshType, NoGapsType DEF EndTick, EndOfLocals, TypeOK
<1>10. CASE EndClose
  BY <1>10, FreshType, NoGapsType DEF EndClose, EndOfLocals, TypeOK
<1>11. ASSUME NEW d \in Device, Outside(d) PROVE TypeOK'
  BY <1>11, OppositeType DEF Outside, Event, TypeOK
<1>12. ASSUME NEW d \in Device, Refresh(d) PROVE TypeOK'
  BY <1>12 DEF Refresh, TypeOK
<1>13. ASSUME NEW c \in Configs, PutConfig(c) PROVE TypeOK'
  BY <1>13 DEF PutConfig, Event, TypeOK
<1>14. CASE Restart
  <2>1. events' \in 0 .. MaxEvents
    BY <1>14 DEF Restart, Event, TypeOK
  <2> QED BY <1>14, <2>1, FreshType, NoGapsType
          DEF Restart, EndOfLocals, TypeOK
<1>15. CASE Tick
  BY <1>15 DEF Tick, TypeOK, Time
<1>16. CASE UNCHANGED vars
  BY <1>16 DEF vars, TypeOK
<1> QED BY <1>1, <1>2, <1>3, <1>4, <1>5, <1>6, <1>7, <1>8, <1>9, <1>10,
           <1>11, <1>12, <1>13, <1>14, <1>15, <1>16
        DEF Next, Task, IO, Others

\* Every variable keeps its type; in particular no plan and no cooldown lies
\* further ahead than the largest interval and the cooldown allow.
THEOREM TypeCorrect == Spec => []TypeOK
<1> QED BY TypeInit, TypeNext, PTL DEF Spec

-----------------------------------------------------------------------------
(* Neither too soon after its own switch nor after somebody else's *)

\* Where the task is, and what it is in the middle of.
TaskInv ==
  /\ tickNow <= now
  /\ pc \in {"sleep", "close"} => due = {}
  /\ pc \in {"sleep", "tick"} => \A d \in Device : phase[d] = "idle"
  /\ pc = "io" => \A d, e \in Device :
                    phase[d] # "idle" /\ phase[e] # "idle" => d = e
  /\ pc = "io" => \A d \in Device : phase[d] # "idle" => d \in due
  /\ pc \in {"tick", "io"} => \A d \in Device : promise[d] <= gaps.min

\* The command of d's toggle was sent, but the next instant is not drawn yet.
Toggling(d) == pc = "io" /\ phase[d] \notin {"idle", "send"}

\* A planned instant keeps the promised gap from the last switch, and a due
\* device waits for one that has come.
GapInv ==
  \A d \in Device :
    /\ lastFlip[d] <= now
    /\ pc \in {"tick", "io"} => lastFlip[d] <= tickNow
    /\ Toggling(d) => lastFlip[d] = tickNow
    /\ nextToggle[d] # Never /\ lastFlip[d] # Never /\ ~Toggling(d) =>
         nextToggle[d] >= lastFlip[d] + promise[d]
    /\ d \in due /\ lastFlip[d] # Never /\ ~Toggling(d) =>
         tickNow >= lastFlip[d] + promise[d]

\* A noticed change starts a cooldown, and no due device is in one.
CoolInv ==
  \A d \in Device :
    /\ noticed[d] # Never => cooldown[d] = noticed[d] + Cooldown
    /\ d \in due => cooldown[d] = Never \/ tickNow >= cooldown[d]

PaceInv == TaskInv /\ GapInv /\ CoolInv

LEMMA PaceInit == Init => PaceInv
<1> SUFFICES ASSUME Init PROVE PaceInv
  OBVIOUS
<1> QED BY DEF Init, PaceInv, TaskInv, GapInv, CoolInv, Toggling, Forget

\* Where the task is, step by step.
LEMMA TaskNext == TypeOK /\ TaskInv /\ [Next]_vars => TaskInv'
<1> SUFFICES ASSUME TypeOK, TaskInv, [Next]_vars PROVE TaskInv'
  OBVIOUS
<1> USE DEF worldVars, taskVars, memoryVars, histVars, paceVars
<1>1. CASE BeginTick
  <2>1. \A d \in Device : promise'[d] <= gaps'.min
    BY <1>1, ConfigType DEF BeginTick, TypeOK, Gap
  <2> QED BY <1>1, <2>1 DEF BeginTick, TaskInv, TypeOK, Time
<1>12. ASSUME NEW c \in {config, Defaults}, BeginClose(c) PROVE TaskInv'
  BY <1>12 DEF BeginClose, TaskInv, TypeOK, Time
<1>2. ASSUME NEW d \in Device, BackOff(d) PROVE TaskInv'
  BY <1>2 DEF BackOff, TaskInv
<1>3. ASSUME NEW d \in Device, StartToggle(d) PROVE TaskInv'
  BY <1>3 DEF StartToggle, TaskInv, TypeOK
<1>4. ASSUME NEW d \in Device, Switch(d) \/ SwitchFails(d) \/ ReadBack(d)
      PROVE  TaskInv'
  <2>1. /\ UNCHANGED <<now, tickNow, pc, gaps, due>>
        /\ \A e \in Device : phase[e] = "idle" <=> phase'[e] = "idle"
    BY <1>4 DEF Switch, SwitchFails, ReadBack, TypeOK
  <2>2. UNCHANGED promise \/ NoteFlip(d)
    BY <1>4 DEF Switch, SwitchFails, ReadBack
  <2>3. pc = "io" => \A e \in Device : promise'[e] <= gaps'.min
    BY <2>1, <2>2, TickDraw DEF NoteFlip, TaskInv, TypeOK, Gap
  <2>4. pc \in {"tick", "io"} => pc = "io"
    BY <1>4 DEF Switch, SwitchFails, ReadBack, TaskInv
  <2> QED BY <2>1, <2>3, <2>4 DEF TaskInv
<1>5. ASSUME NEW d \in Device, EndToggle(d) PROVE TaskInv'
  <2>1. /\ UNCHANGED <<now, tickNow, gaps, promise>>
        /\ pc = "io" /\ pc' = "tick"
        /\ phase[d] # "idle" /\ phase' = [phase EXCEPT ![d] = "idle"]
    BY <1>5 DEF EndToggle
  <2>2. \A e \in Device : phase'[e] = "idle"
    BY <2>1 DEF TaskInv, TypeOK
  <2> QED BY <2>1, <2>2 DEF TaskInv
<1>6. CASE EndTick
  BY <1>6 DEF EndTick, EndOfLocals, TaskInv, TypeOK, Time
<1>7. CASE EndClose
  BY <1>7 DEF EndClose, EndOfLocals, TaskInv, TypeOK, Time
<1>8. CASE Others
  BY <1>8 DEF Others, Outside, Refresh, PutConfig, TaskInv
<1>9. CASE Restart
  BY <1>9 DEF Restart, EndOfLocals, TaskInv, TypeOK, Time
<1>10. CASE Tick
  BY <1>10 DEF Tick, TaskInv, TypeOK, Time
<1>11. CASE UNCHANGED vars
  BY <1>11 DEF vars, TaskInv
<1> QED BY <1>1, <1>2, <1>3, <1>4, <1>5, <1>6, <1>7, <1>8, <1>9, <1>10,
           <1>11, <1>12 DEF Next, Task, IO

\* The steps that leave the engine's memory of switches and changes alone.
LEMMA PaceKept ==
  ASSUME TypeOK, PaceInv,
         UNCHANGED <<pc, tickNow, due, nextToggle, cooldown, lastFlip, promise,
                     noticed>>,
         now' \in Int, now' >= now,
         \A d \in Device : Toggling(d)' <=> Toggling(d)
  PROVE  GapInv' /\ CoolInv'
<1>1. \A d \in Device : lastFlip[d] <= now => lastFlip'[d] <= now'
  BY DEF TypeOK, Time
<1> QED BY <1>1 DEF PaceInv, GapInv, CoolInv

LEMMA PaceNext == TypeOK /\ PaceInv /\ [Next]_vars => PaceInv'
<1> SUFFICES ASSUME TypeOK, PaceInv, [Next]_vars PROVE GapInv' /\ CoolInv'
  BY TaskNext DEF PaceInv
<1> USE DEF worldVars, taskVars, memoryVars, histVars, paceVars
<1>a. TaskInv /\ GapInv /\ CoolInv
  BY DEF PaceInv
<1>b. /\ now \in Nat /\ tickNow \in Nat /\ gaps.min \in Nat
      /\ \A d \in Device : /\ nextToggle[d] \in Int /\ cooldown[d] \in Int
                           /\ lastFlip[d] \in Int /\ noticed[d] \in Int
                           /\ promise[d] \in Nat
  BY DEF TypeOK, Time, Gaps, Gap
<1>c. \A t \in DrawNext(tickNow, gaps) : t \in Nat /\ t >= tickNow + gaps.min
  BY TickDraw
<1>1. CASE BeginTick
  <2>1. /\ pc = "sleep" /\ pc' = "tick" /\ tickNow' = now
        /\ due' = DueDevices(config.devices, now)
        /\ UNCHANGED <<now, cooldown, lastFlip, noticed, phase>>
    BY <1>1 DEF BeginTick
  <2>a. /\ config.min \in Nat /\ now \in Time
        /\ \A d \in Device : /\ promise'[d] \in Nat
                             /\ promise'[d] <= promise[d]
                             /\ promise'[d] <= config.min
    BY <1>1, <1>b, ConfigType DEF BeginTick, TypeOK, Gap
  <2>b. \A t \in DrawNext(now, config) : t \in Nat /\ t >= now + config.min
    BY <2>a, ConfigType, DrawType DEF TypeOK
  <2>2. ASSUME NEW d \in Device
        PROVE  \/ nextToggle'[d] = nextToggle[d]
               \/ nextToggle'[d] \in Nat /\ nextToggle'[d] >= now + config.min
    <3>1. PICK draw \in [Unplanned(config.devices, now)
                             -> DrawNext(now, config)] :
            nextToggle' = [e \in Device |->
                             IF e \in DOMAIN draw THEN draw[e]
                                                  ELSE nextToggle[e]]
      BY <1>1 DEF BeginTick
    <3>2. CASE d \in Unplanned(config.devices, now)
      <4>1. nextToggle'[d] \in DrawNext(now, config)
        BY <3>1, <3>2
      <4> QED BY <4>1, <2>b
    <3>3. CASE d \notin Unplanned(config.devices, now)
      BY <3>1, <3>3
    <3> QED BY <3>2, <3>3
  <2>3. \A d \in Device : ~Toggling(d) /\ ~Toggling(d)'
    BY <2>1 DEF Toggling
  <2>4. ASSUME NEW d \in Device, d \in due'
        PROVE  /\ cooldown[d] = Never \/ now >= cooldown[d]
               /\ lastFlip[d] # Never => now >= lastFlip[d] + promise[d]
    <3>1. ~Cooling(d, now) /\ nextToggle[d] # Never /\ now >= nextToggle[d]
      BY <2>1, <2>4 DEF DueDevices
    <3>2. cooldown[d] = Never \/ now >= cooldown[d]
      BY <3>1, <1>b DEF Cooling
    <3>3. lastFlip[d] # Never => nextToggle[d] >= lastFlip[d] + promise[d]
      BY <1>a, <2>3, <3>1 DEF GapInv
    <3> QED BY <1>b, <3>1, <3>2, <3>3
  <2>5. CoolInv'
    BY <1>a, <2>1, <2>4 DEF CoolInv
  <2>6. GapInv'
    <3> SUFFICES ASSUME NEW d \in Device
                 PROVE  /\ lastFlip'[d] <= now' /\ lastFlip'[d] <= tickNow'
                        /\ nextToggle'[d] # Never /\ lastFlip'[d] # Never =>
                             nextToggle'[d] >= lastFlip'[d] + promise'[d]
                        /\ d \in due' /\ lastFlip'[d] # Never =>
                             tickNow' >= lastFlip'[d] + promise'[d]
      BY <2>3 DEF GapInv
    <3>1. lastFlip'[d] <= now' /\ lastFlip'[d] <= tickNow'
      BY <1>a, <2>1 DEF GapInv
    <3>2. nextToggle[d] # Never /\ lastFlip[d] # Never =>
            nextToggle[d] >= lastFlip[d] + promise[d]
      BY <1>a, <2>3 DEF GapInv
    <3>3. nextToggle'[d] # Never /\ lastFlip'[d] # Never =>
            nextToggle'[d] >= lastFlip'[d] + promise'[d]
      BY <1>b, <2>1, <2>2, <2>a, <3>1, <3>2
    <3>4. d \in due' /\ lastFlip'[d] # Never =>
            tickNow' >= lastFlip'[d] + promise'[d]
      BY <1>b, <2>1, <2>4, <2>a
    <3> QED BY <3>1, <3>3, <3>4
  <2> QED BY <2>5, <2>6
<1>2. ASSUME NEW c \in {config, Defaults}, BeginClose(c)
      PROVE  GapInv' /\ CoolInv'
  <2>1. /\ pc = "sleep" /\ pc' = "close" /\ due' = due
        /\ UNCHANGED <<now, nextToggle, cooldown, lastFlip, promise, noticed>>
    BY <1>2 DEF BeginClose
  <2>2. due = {}
    BY <1>a, <2>1 DEF TaskInv
  <2>3. \A d \in Device : ~Toggling(d) /\ ~Toggling(d)'
    BY <2>1 DEF Toggling
  <2> QED BY <1>a, <2>1, <2>2, <2>3 DEF GapInv, CoolInv
<1>3. ASSUME NEW d \in Device, BackOff(d) PROVE GapInv' /\ CoolInv'
  <2>1. PICK t \in DrawNext(tickNow, gaps) :
          nextToggle' = [nextToggle EXCEPT ![d] = t]
    BY <1>3 DEF BackOff
  <2>2. /\ pc = "tick" /\ d \in due /\ due' = due \ {d}
        /\ cooldown' = [cooldown EXCEPT ![d] = tickNow + Cooldown]
        /\ noticed' = [noticed EXCEPT ![d] = tickNow]
        /\ UNCHANGED <<pc, now, tickNow, lastFlip, promise>>
    BY <1>3 DEF BackOff
  <2>3. \A e \in Device : ~Toggling(e) /\ ~Toggling(e)'
    BY <2>2 DEF Toggling
  <2>4. t \in Nat /\ t >= tickNow + gaps.min
    BY <1>c
  <2>5. lastFlip[d] <= tickNow /\ promise[d] <= gaps.min
    BY <1>a, <2>2 DEF GapInv, TaskInv
  <2>6. /\ \A e \in Device \ {d} : /\ nextToggle'[e] = nextToggle[e]
                                   /\ cooldown'[e] = cooldown[e]
                                   /\ noticed'[e] = noticed[e]
        /\ nextToggle'[d] = t /\ noticed'[d] = tickNow
        /\ cooldown'[d] = tickNow + Cooldown
    BY <2>1, <2>2 DEF TypeOK
  <2>7. GapInv'
    BY <1>a, <1>b, <2>2, <2>3, <2>4, <2>5, <2>6 DEF GapInv
  <2>8. CoolInv'
    BY <1>a, <2>2, <2>6 DEF CoolInv
  <2> QED BY <2>7, <2>8
<1>4. ASSUME NEW d \in Device, StartToggle(d) PROVE GapInv' /\ CoolInv'
  <2>1. /\ pc = "tick" /\ pc' = "io" /\ d \in due
        /\ phase' = [phase EXCEPT ![d] = "send"]
        /\ UNCHANGED <<now, tickNow, due, nextToggle, cooldown, lastFlip,
                       promise, noticed>>
    BY <1>4 DEF StartToggle
  <2>2. \A e \in Device : ~Toggling(e) /\ ~Toggling(e)'
    BY <1>a, <2>1 DEF Toggling, TaskInv, TypeOK
  <2>3. GapInv'
    BY <1>a, <2>1, <2>2 DEF GapInv
  <2> QED BY <1>a, <2>1, <2>3 DEF CoolInv
<1>5. ASSUME NEW d \in Device, Switch(d) \/ SwitchFails(d)
      PROVE  GapInv' /\ CoolInv'
  <2>1. /\ UNCHANGED <<pc, tickNow, due, nextToggle, cooldown, noticed, now>>
        /\ phase[d] = "send" /\ phase'[d] \notin {"idle", "send"}
        /\ \A e \in Device \ {d} : phase'[e] = phase[e]
        /\ NoteFlip(d)
    BY <1>5 DEF Switch, SwitchFails, TypeOK
  <2>2. CoolInv'
    BY <1>a, <2>1 DEF CoolInv
  <2>3. CASE pc = "io"
    <3>1. /\ lastFlip'[d] = tickNow /\ tickNow <= now /\ Toggling(d)'
          /\ \A e \in Device \ {d} :
               /\ lastFlip'[e] = lastFlip[e] /\ promise'[e] = promise[e]
               /\ Toggling(e)' <=> Toggling(e)
      BY <1>a, <2>1, <2>3 DEF NoteFlip, Toggling, TaskInv, TypeOK
    <3>2. GapInv'
      BY <1>a, <1>b, <2>1, <3>1 DEF GapInv
    <3> QED BY <2>2, <3>2
  <2>4. CASE pc # "io"
    <3>1. /\ UNCHANGED <<lastFlip, promise>>
          /\ \A e \in Device : Toggling(e)' <=> Toggling(e)
      BY <2>1, <2>4 DEF NoteFlip, Toggling
    <3> QED BY <1>b, <2>1, <3>1, PaceKept
  <2> QED BY <2>3, <2>4
<1>12. ASSUME NEW d \in Device, ReadBack(d) PROVE GapInv' /\ CoolInv'
  <2>1. /\ UNCHANGED <<pc, tickNow, due, nextToggle, cooldown, lastFlip,
                       promise, noticed, now>>
        /\ \A e \in Device :
             phase'[e] \in {"idle", "send"} <=> phase[e] \in {"idle", "send"}
    BY <1>12 DEF ReadBack, TypeOK
  <2> QED BY <1>b, <2>1, PaceKept DEF Toggling
<1>6. ASSUME NEW d \in Device, EndToggle(d) PROVE GapInv' /\ CoolInv'
  <2>1. PICK t \in DrawNext(tickNow, gaps) :
          nextToggle' = [nextToggle EXCEPT ![d] = t]
    BY <1>6 DEF EndToggle
  <2>2. /\ pc = "io" /\ phase[d] \notin {"idle", "send"} /\ pc' = "tick"
        /\ due' = due \ {d}
        /\ UNCHANGED <<now, tickNow, cooldown, lastFlip, promise, noticed>>
    BY <1>6 DEF EndToggle
  <2>3. /\ Toggling(d) /\ \A e \in Device \ {d} : ~Toggling(e)
        /\ \A e \in Device : ~Toggling(e)'
    BY <1>a, <2>2 DEF Toggling, TaskInv
  <2>4. /\ t \in Nat /\ t >= tickNow + gaps.min
        /\ lastFlip[d] <= tickNow /\ promise[d] <= gaps.min
    BY <1>a, <1>c, <2>2 DEF GapInv, TaskInv
  <2>5. /\ \A e \in Device \ {d} : nextToggle'[e] = nextToggle[e]
        /\ nextToggle'[d] = t
    BY <2>1 DEF TypeOK
  <2>6. GapInv'
    BY <1>a, <1>b, <2>2, <2>3, <2>4, <2>5 DEF GapInv
  <2> QED BY <1>a, <2>2, <2>6 DEF CoolInv
<1>7. CASE EndTick
  <2>1. /\ pc = "tick" /\ pc' = "sleep" /\ due = {} /\ due' = {}
        /\ UNCHANGED <<now, nextToggle, cooldown, lastFlip, promise, noticed>>
    BY <1>7 DEF EndTick
  <2>2. \A d \in Device : ~Toggling(d) /\ ~Toggling(d)'
    BY <2>1 DEF Toggling
  <2> QED BY <1>a, <2>1, <2>2 DEF GapInv, CoolInv
<1>8. ASSUME EndClose \/ Restart PROVE GapInv' /\ CoolInv'
  <2>1. /\ due' = {} /\ pc' = "sleep" /\ UNCHANGED <<now, lastFlip>>
        /\ \A d \in Device : /\ nextToggle'[d] = Never
                             /\ noticed'[d] = Never
    BY <1>8, <1>a DEF EndClose, Restart, Forget, TaskInv
  <2>2. \A d \in Device : ~Toggling(d)'
    BY <2>1 DEF Toggling
  <2> QED BY <1>a, <2>1, <2>2 DEF GapInv, CoolInv
<1>9. CASE Others
  <2>1. UNCHANGED <<now, pc, phase, tickNow, due, nextToggle, cooldown,
                    lastFlip, promise, noticed>>
    BY <1>9 DEF Others, Outside, Refresh, PutConfig
  <2> QED BY <1>b, <2>1, PaceKept DEF Toggling
<1>10. CASE Tick
  <2>1. /\ UNCHANGED <<pc, phase, tickNow, due, nextToggle, cooldown, lastFlip,
                       promise, noticed>>
        /\ now' = now + 1
    BY <1>10 DEF Tick
  <2> QED BY <1>b, <2>1, PaceKept DEF Toggling
<1>11. CASE UNCHANGED vars
  <2>1. UNCHANGED <<now, pc, phase, tickNow, due, nextToggle, cooldown,
                    lastFlip, promise, noticed>>
    BY <1>11 DEF vars
  <2> QED BY <1>b, <2>1, PaceKept DEF Toggling
<1> QED BY <1>1, <1>2, <1>3, <1>4, <1>5, <1>6, <1>7, <1>8, <1>9, <1>10,
           <1>11, <1>12 DEF Next, Task, IO

THEOREM PaceInvariant == Spec => [](TypeOK /\ PaceInv)
<1> QED BY TypeInit, TypeNext, PaceInit, PaceNext, PTL DEF Spec

\* The device a step starts to switch is due: the cooldown it was chosen by
\* holds for it still.
LEMMA StartIsDue ==
  ASSUME TypeOK, PaceInv, NEW d \in Device, StartToggle(d)
  PROVE  noticed[d] = Never \/ tickNow - noticed[d] >= Cooldown
<1>1. d \in due
  BY DEF StartToggle
<1>2. /\ tickNow \in Nat /\ noticed[d] \in Int
      /\ noticed[d] # Never => noticed[d] \in Nat
  BY DEF TypeOK, Time
<1>3. noticed[d] # Never => tickNow >= noticed[d] + Cooldown
  BY <1>1, <1>2 DEF PaceInv, CoolInv
<1> QED BY <1>2, <1>3

\* So does the instant, until the command goes out.
LEMMA SentIsDue ==
  ASSUME TypeOK, PaceInv, NEW d \in Device, FlipSent(d)
  PROVE  lastFlip[d] = Never \/ now - lastFlip[d] >= promise[d]
<1>1. d \in due /\ ~Toggling(d) /\ tickNow <= now
  BY DEF FlipSent, Toggling, PaceInv, TaskInv
<1>2. /\ tickNow \in Nat /\ now \in Nat /\ lastFlip[d] \in Int
      /\ promise[d] \in Nat
  BY DEF TypeOK, Time
<1>3. lastFlip[d] # Never => tickNow >= lastFlip[d] + promise[d]
  BY <1>1 DEF PaceInv, GapInv
<1> QED BY <1>1, <1>2, <1>3

\* The commands of the simulation keep the smallest interval in force since the
\* tick of the previous one, across edits of the intervals, failed commands,
\* reopened windows and restarts.
THEOREM NoRapidFlipsHolds == Spec => NoRapidFlips
<1>1. TypeOK /\ PaceInv =>
        [\A d \in Device :
           FlipSent(d) =>
             lastFlip[d] = Never \/ now - lastFlip[d] >= promise[d]]_vars
  BY SentIsDue
<1> QED BY <1>1, PaceInvariant, PTL DEF NoRapidFlips

\* The simulation leaves a light alone for the cooldown after it noticed that
\* somebody switched it.
THEOREM CooldownKeptHolds == Spec => CooldownKept
<1>1. TypeOK /\ PaceInv =>
        [\A d \in Device :
           StartToggle(d) =>
             noticed[d] = Never \/ tickNow - noticed[d] >= Cooldown]_vars
  BY StartIsDue
<1> QED BY <1>1, PaceInvariant, PTL DEF CooldownKept

-----------------------------------------------------------------------------
(* The house is left dark *)

\* Only a window's end leaves devices dark, only inside one are they lit.
Phases ==
  /\ pc \in {"tick", "io"} => windowOpen /\ dark = {}
  /\ pc = "close" => target = "off" /\ ~windowOpen
  /\ pc = "sleep" /\ ~windowOpen => \A d \in Device : expected[d] = "none"

Mine(d) == d \notin touched \cup troubled

\* Inside the window, an untouched device that the engine switched before is
\* and reads as expected, except while it is being switched.
AsExpected ==
  pc # "close" =>
    \A d \in Device : Mine(d) =>
      /\ phase[d] \in {"idle", "send"} /\ expected[d] # "none" =>
           live[d] = expected[d] /\ cached[d] = expected[d]
      /\ phase[d] = "read" => live[d] = target
      /\ phase[d] = "ok" => live[d] = target /\ cached[d] = target
      /\ phase[d] # "failed"

\* While it closes, every untouched device is on its way to dark.
GoingDark ==
  pc = "close" =>
    \A d \in ids : Mine(d) =>
      /\ phase[d] \in {"send", "read", "ok"}
      /\ phase[d] \in {"read", "ok"} => live[d] = "off"

DarkInv == Phases /\ AsExpected /\ GoingDark /\ LeavesHouseDark

LEMMA DarkInit == Init => DarkInv
<1> SUFFICES ASSUME Init PROVE DarkInv
  OBVIOUS
<1> QED BY DEF Init, DarkInv, Phases, AsExpected, GoingDark, LeavesHouseDark

\* The steps of the task: they decide, and never switch anything themselves.
LEMMA DarkTask ==
  TypeOK /\ TaskInv /\ DarkInv /\ Task => DarkInv'
<1> SUFFICES ASSUME TypeOK, TaskInv, DarkInv, Task PROVE DarkInv'
  OBVIOUS
<1> USE DEF worldVars, memoryVars, histVars, paceVars
<1>a. Phases /\ AsExpected /\ GoingDark /\ LeavesHouseDark
  BY DEF DarkInv
<1>1. CASE BeginTick
  <2>1. /\ pc = "sleep" /\ pc' = "tick" /\ windowOpen' = TRUE /\ dark' = {}
        /\ UNCHANGED <<live, cached, phase, target, expected, touched,
                       troubled>>
    BY <1>1 DEF BeginTick
  <2> QED BY <1>a, <2>1
          DEF DarkInv, Phases, AsExpected, GoingDark, LeavesHouseDark, Mine
<1>2. ASSUME NEW c \in {config, Defaults}, BeginClose(c) PROVE DarkInv'
  <2>1. /\ pc = "sleep" /\ pc' = "close" /\ target' = "off"
        /\ windowOpen' = FALSE /\ ids' = c.devices
        /\ phase' = [d \in Device |-> IF d \in ToOff(c.devices) THEN "send"
                                                              ELSE "idle"]
        /\ UNCHANGED <<live, dark, touched, troubled>>
    BY <1>2 DEF BeginClose
  <2>2. ASSUME NEW d \in ids', Mine(d) PROVE phase'[d] = "send"
    <3>1. d \in Device
      BY <2>1, <2>2, ConfigType DEF TypeOK
    <3>2. phase[d] = "idle"
      BY <2>1, <3>1 DEF TaskInv
    <3>3. ~ExternallyChanged(d)
      BY <1>a, <2>1, <2>2, <3>1, <3>2 DEF AsExpected, ExternallyChanged
    <3> QED BY <2>1, <2>2, <3>1, <3>3 DEF ToOff
  <2>3. GoingDark'
    BY <2>1, <2>2 DEF GoingDark, Mine
  <2> QED BY <1>a, <2>1, <2>3
          DEF DarkInv, Phases, AsExpected, LeavesHouseDark
<1>3. ASSUME NEW d \in Device, BackOff(d) PROVE DarkInv'
  <2>1. /\ pc = "tick" /\ ExternallyChanged(d)
        /\ expected' = [expected EXCEPT ![d] = cached[d]]
        /\ UNCHANGED <<live, cached, pc, ids, target, phase, windowOpen,
                       touched, troubled, dark>>
    BY <1>3 DEF BackOff
  <2>2. ~Mine(d)
    BY <1>a, <2>1 DEF AsExpected, TaskInv, ExternallyChanged
  <2>3. \A e \in Device : Mine(e) => expected'[e] = expected[e]
    BY <2>1, <2>2 DEF TypeOK
  <2>4. AsExpected'
    BY <1>a, <2>1, <2>3 DEF AsExpected, Mine
  <2> QED BY <1>a, <2>1, <2>4
          DEF DarkInv, Phases, GoingDark, LeavesHouseDark
<1>4. ASSUME NEW d \in Device, StartToggle(d) PROVE DarkInv'
  <2>1. /\ pc = "tick" /\ pc' = "io"
        /\ phase' = [phase EXCEPT ![d] = "send"]
        /\ UNCHANGED <<live, cached, ids, expected, windowOpen, touched,
                       troubled, dark>>
    BY <1>4 DEF StartToggle
  <2>2. \A e \in Device : phase[e] = "idle" /\ phase'[e] \in {"idle", "send"}
    BY <2>1 DEF TypeOK, TaskInv
  <2>3. AsExpected'
    BY <1>a, <2>1, <2>2 DEF AsExpected, Mine
  <2> QED BY <1>a, <2>1, <2>3
          DEF DarkInv, Phases, GoingDark, LeavesHouseDark
<1>5. ASSUME NEW d \in Device, EndToggle(d) PROVE DarkInv'
  <2>1. /\ pc = "io" /\ pc' = "tick" /\ phase[d] \in {"ok", "failed"}
        /\ phase' = [phase EXCEPT ![d] = "idle"]
        /\ expected' = IF phase[d] = "ok"
                         THEN [expected EXCEPT ![d] = target] ELSE expected
        /\ UNCHANGED <<live, cached, ids, windowOpen, touched, troubled,
                       dark>>
    BY <1>5 DEF EndToggle
  <2>2. \A e \in Device \ {d} : phase[e] = "idle" /\ expected'[e] = expected[e]
    BY <2>1 DEF TypeOK, TaskInv
  <2>3. \A e \in Device : phase'[e] = "idle"
    BY <2>1, <2>2 DEF TypeOK
  <2>4. Mine(d) => /\ expected'[d] = target
                   /\ live[d] = target /\ cached[d] = target
    BY <1>a, <2>1 DEF AsExpected, TypeOK
  <2>5. AsExpected'
    BY <1>a, <2>1, <2>2, <2>3, <2>4 DEF AsExpected, Mine
  <2> QED BY <1>a, <2>1, <2>5
          DEF DarkInv, Phases, GoingDark, LeavesHouseDark
<1>6. CASE EndTick
  <2>1. /\ pc = "tick" /\ pc' = "sleep"
        /\ UNCHANGED <<live, cached, phase, expected, windowOpen, touched,
                       troubled, dark>>
    BY <1>6 DEF EndTick
  <2>2. \A e \in Device : phase[e] = "idle"
    BY <2>1 DEF TaskInv
  <2>3. AsExpected'
    BY <1>a, <2>1, <2>2 DEF AsExpected, Mine
  <2> QED BY <1>a, <2>1, <2>3
          DEF DarkInv, Phases, GoingDark, LeavesHouseDark
<1>7. CASE EndClose
  <2>1. /\ pc = "close" /\ pc' = "sleep"
        /\ \A d \in Device : ~Busy(d)
        /\ dark' = ids \ (touched \cup troubled)
        /\ \A d \in Device : phase'[d] = "idle" /\ expected'[d] = "none"
        /\ UNCHANGED live
    BY <1>7 DEF EndClose
  <2>2. ASSUME NEW d \in dark' PROVE live'[d] = "off"
    <3>1. d \in ids /\ d \in Device /\ Mine(d)
      BY <2>1, <2>2 DEF TypeOK, Mine
    <3> QED BY <1>a, <2>1, <3>1 DEF GoingDark, Busy
  <2> QED BY <2>1, <2>2
          DEF DarkInv, Phases, AsExpected, GoingDark, LeavesHouseDark
<1> QED BY <1>1, <1>2, <1>3, <1>4, <1>5, <1>6, <1>7 DEF Task

\* The device calls in flight: inside the window no device is left dark, and
\* the closing switches off.
LEMMA DarkIO ==
  ASSUME TypeOK, TaskInv, DarkInv, NEW d \in Device,
         Switch(d) \/ SwitchFails(d) \/ ReadBack(d)
  PROVE  DarkInv'
<1> USE DEF memoryVars, histVars, paceVars
<1>a. Phases /\ AsExpected /\ GoingDark /\ LeavesHouseDark
  BY DEF DarkInv
<1>b. /\ pc \in {"io", "close"}
      /\ UNCHANGED <<pc, ids, target, expected, windowOpen, touched, dark>>
  BY DEF Switch, SwitchFails, ReadBack, TypeOK, TaskInv
<1>c. Phases'
  BY <1>a, <1>b DEF Phases
<1>1. CASE Switch(d)
  <2>1. /\ phase[d] = "send"
        /\ live' = [live EXCEPT ![d] = target]
        /\ phase' = [phase EXCEPT ![d] = "read"]
        /\ UNCHANGED <<cached, troubled>>
    BY <1>1 DEF Switch
  <2>2. /\ live'[d] = target /\ phase'[d] = "read"
        /\ \A e \in Device \ {d} : live'[e] = live[e] /\ phase'[e] = phase[e]
    BY <2>1 DEF TypeOK
  <2>3. AsExpected'
    BY <1>a, <1>b, <2>1, <2>2 DEF AsExpected, Mine
  <2>4. GoingDark'
    BY <1>a, <1>b, <2>1, <2>2 DEF GoingDark, Mine, Phases, TypeOK
  <2>5. LeavesHouseDark'
    BY <1>a, <1>b, <2>2 DEF LeavesHouseDark, Phases, TypeOK
  <2> QED BY <1>c, <2>3, <2>4, <2>5 DEF DarkInv
<1>2. CASE SwitchFails(d)
  <2>1. /\ \E s \in {live[d], target} : live' = [live EXCEPT ![d] = s]
        /\ phase' = [phase EXCEPT ![d] = "failed"]
        /\ troubled' = troubled \cup {d}
        /\ UNCHANGED cached
    BY <1>2 DEF SwitchFails
  <2>2. /\ live'[d] \in {live[d], target}
        /\ \A e \in Device \ {d} : live'[e] = live[e] /\ phase'[e] = phase[e]
    BY <2>1 DEF TypeOK
  <2>3. AsExpected'
    BY <1>a, <1>b, <2>1, <2>2 DEF AsExpected, Mine
  <2>4. GoingDark'
    BY <1>a, <1>b, <2>1, <2>2 DEF GoingDark, Mine, TypeOK
  <2>5. LeavesHouseDark'
    BY <1>a, <1>b, <2>2 DEF LeavesHouseDark, Phases, TypeOK
  <2> QED BY <1>c, <2>3, <2>4, <2>5 DEF DarkInv
<1>3. CASE ReadBack(d)
  <2>1. /\ phase[d] = "read"
        /\ phase' = [phase EXCEPT ![d] = "ok"]
        /\ \/ cached' = [cached EXCEPT ![d] = live[d]] /\ UNCHANGED troubled
           \/ troubled' = troubled \cup {d} /\ UNCHANGED cached
        /\ UNCHANGED live
    BY <1>3 DEF ReadBack
  <2>2. /\ phase'[d] = "ok" /\ d \notin troubled' => cached'[d] = live[d]
        /\ \A e \in Device \ {d} :
             cached'[e] = cached[e] /\ phase'[e] = phase[e]
        /\ troubled \subseteq troubled'
    BY <2>1 DEF TypeOK
  <2>3. AsExpected'
    BY <1>a, <1>b, <2>1, <2>2 DEF AsExpected, Mine
  <2>4. GoingDark'
    BY <1>a, <1>b, <2>1, <2>2 DEF GoingDark, Mine, TypeOK
  <2>5. LeavesHouseDark'
    BY <1>a, <1>b, <2>1 DEF LeavesHouseDark
  <2> QED BY <1>c, <2>3, <2>4, <2>5 DEF DarkInv
<1> QED BY <1>1, <1>2, <1>3

\* Somebody else's change takes the device out of the promise; a restart, a
\* reading, an edit and the clock move no relay.
LEMMA DarkNext ==
  TypeOK /\ TaskInv /\ DarkInv /\ [Next]_vars => DarkInv'
<1> SUFFICES ASSUME TypeOK, TaskInv, DarkInv, [Next]_vars PROVE DarkInv'
  OBVIOUS
<1> USE DEF worldVars, taskVars, memoryVars, histVars, paceVars
<1>a. Phases /\ AsExpected /\ GoingDark /\ LeavesHouseDark
  BY DEF DarkInv
<1>1. CASE Task
  BY <1>1, DarkTask
<1>2. CASE IO
  BY <1>2, DarkIO DEF IO
<1>3. ASSUME NEW d \in Device, Outside(d) PROVE DarkInv'
  <2>1. /\ live' = [live EXCEPT ![d] = Opposite(live[d])]
        /\ touched' = IF windowOpen \/ pc = "close" THEN touched \cup {d}
                                                    ELSE {}
        /\ dark' = dark \ {d}
        /\ UNCHANGED <<cached, pc, ids, target, phase, expected, windowOpen,
                       troubled>>
    BY <1>3 DEF Outside
  <2>2. \A e \in Device \ {d} : live'[e] = live[e]
    BY <2>1 DEF TypeOK
  <2>3. Phases' /\ LeavesHouseDark'
    BY <1>a, <2>1, <2>2 DEF Phases, LeavesHouseDark, TypeOK
  <2>4. CASE windowOpen \/ pc = "close"
    <3>1. \A e : Mine(e)' => e # d /\ Mine(e)
      BY <2>1, <2>4 DEF Mine
    <3>2. AsExpected'
      BY <1>a, <2>1, <2>2, <3>1 DEF AsExpected
    <3>3. GoingDark'
      BY <1>a, <2>1, <2>2, <3>1 DEF GoingDark, TypeOK
    <3> QED BY <2>3, <3>2, <3>3 DEF DarkInv
  <2>5. CASE ~windowOpen /\ pc # "close"
    <3>1. pc = "sleep"
      BY <1>a, <2>5 DEF Phases, TypeOK
    <3>2. \A e \in Device : expected'[e] = "none" /\ phase'[e] = "idle"
      BY <1>a, <2>1, <2>5, <3>1 DEF Phases, TaskInv
    <3> QED BY <2>1, <2>3, <3>1, <3>2 DEF DarkInv, AsExpected, GoingDark
  <2> QED BY <2>4, <2>5
<1>4. ASSUME NEW d \in Device, Refresh(d) PROVE DarkInv'
  <2>1. /\ cached' = [cached EXCEPT ![d] = live[d]]
        /\ UNCHANGED <<live, pc, ids, target, phase, expected, windowOpen,
                       touched, troubled, dark>>
    BY <1>4 DEF Refresh
  <2>2. \A e \in Device : cached'[e] = IF e = d THEN live[e] ELSE cached[e]
    BY <2>1 DEF TypeOK
  <2>3. AsExpected'
    BY <1>a, <2>1, <2>2 DEF AsExpected, Mine
  <2> QED BY <1>a, <2>1, <2>3
          DEF DarkInv, Phases, GoingDark, LeavesHouseDark, Mine
<1>5. ASSUME \/ \E c \in Configs : PutConfig(c)
             \/ Tick
             \/ UNCHANGED vars
      PROVE  DarkInv'
  <2>1. UNCHANGED <<live, cached, pc, ids, target, phase, expected, windowOpen,
                    touched, troubled, dark>>
    BY <1>5 DEF PutConfig, Tick, vars
  <2> QED BY <1>a, <2>1
          DEF DarkInv, Phases, AsExpected, GoingDark, LeavesHouseDark, Mine
<1>6. CASE Restart
  <2>1. /\ pc' = "sleep"
        /\ \A d \in Device : phase'[d] = "idle" /\ expected'[d] = "none"
        /\ UNCHANGED <<live, dark>>
    BY <1>6 DEF Restart
  <2> QED BY <1>a, <2>1
          DEF DarkInv, Phases, AsExpected, GoingDark, LeavesHouseDark
<1> QED BY <1>1, <1>2, <1>3, <1>4, <1>5, <1>6 DEF Next, Others

\* A closed window leaves every device dark that obeyed and that nobody else
\* changed, and it stays dark until somebody does or the next window opens.
THEOREM LeavesHouseDarkHolds == Spec => []LeavesHouseDark
<1>1. Init => TypeOK /\ TaskInv /\ DarkInv
  BY TypeInit, PaceInit, DarkInit DEF PaceInv
<1>2. TypeOK /\ TaskInv /\ DarkInv /\ [Next]_vars
        => (TypeOK /\ TaskInv /\ DarkInv)'
  BY TypeNext, TaskNext, DarkNext
<1>3. TypeOK /\ TaskInv /\ DarkInv => LeavesHouseDark
  BY DEF DarkInv
<1> QED BY <1>1, <1>2, <1>3, PTL DEF Spec

=============================================================================
