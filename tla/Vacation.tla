------------------------------- MODULE Vacation -------------------------------
(***************************************************************************)
(* Presence simulation: VacationEngine (api/vacation.py), its config       *)
(* document (api/vacation_store.py, api/routers/vacation.py) and the two   *)
(* registry calls it makes, set_power and the cached read of is_on         *)
(* (api/kasa_service.py).                                                  *)
(*                                                                         *)
(* The engine is one task of the event loop.  It decides from what the     *)
(* registry last READ (cached), while people, schedule rules and the Kasa  *)
(* app move the relay itself (live).  It suspends only inside              *)
(* set_power_many, where each device's command and read-back run on their  *)
(* own; phase[d] says how far they got.  Time is counted in minutes.       *)
(***************************************************************************)
EXTENDS Integers, FiniteSets

CONSTANTS
  Device,      \* the devices
  Configs,     \* the config documents a client may PUT
  Horizon,     \* bound: the last minute the clock reaches
  MaxGap,      \* bound: the largest max_interval_minutes in Configs
  Cooldown,    \* _MANUAL_COOLDOWN_MINUTES
  MaxEvents    \* bound: switches by anybody but the engine, config PUTs,
               \* unreadable config files, failed commands and read-backs, and
               \* restarts, all together

Time   == 0 .. Horizon
Relay  == {"on", "off"}
Never  == -1
Gap    == 1 .. MaxGap
Gaps   == [min : Gap, max : Gap]
Config == [enabled : BOOLEAN, devices : SUBSET Device, start : Nat, end : Nat,
           min : Gap, max : Gap]

ASSUME VacationBounds ==
  Horizon \in Nat /\ Cooldown \in Nat /\ MaxGap \in Nat /\ MaxEvents \in Nat

ASSUME ConfigsAssumption ==
  /\ Configs \subseteq Config /\ Configs # {}
  /\ \A c \in Configs : c.min <= c.max

VARIABLES
  now,         \* the clock
  live,        \* live[d]: the relay of d
  cached,      \* cached[d]: is_on as the registry last read it
  config,      \* the stored config; rooms are resolved to their members
  pc,          \* where the task is: sleep, tick, io or close
  tickNow,     \* the `now' of this tick
  ids,         \* the devices of this tick
  gaps,        \* the intervals of the config this tick runs with
  due,         \* what is left of _due_devices
  target,      \* the state being written
  phase,       \* phase[d]: d's call inside set_power_many
  nextToggle,  \* _next_toggle
  expected,    \* _expected
  cooldown,    \* _cooldown_until
  windowOpen,  \* _window_open
  events,      \* how many of the bounded events there were
  \* history, read by the properties only
  touched,     \* devices somebody else changed since the window opened
  troubled,    \* devices whose command or read-back failed since then
  dark,        \* devices the last closing left dark and nobody changed since
  lit,         \* devices that are on because the simulation switched them on:
               \* their commands and read-backs went through, nobody else
               \* switched them since, no restart and no closing under a config
               \* without them came in between
  lastFlip,    \* lastFlip[d]: the tick of the last simulated toggle sent
  promise,     \* promise[d]: the smallest minimum interval of a config that the
               \* engine ran a tick with since then, that tick included
  noticed      \* noticed[d]: the tick it last noticed somebody's change, since
               \* the last closing or restart

worldVars  == <<now, live, cached, config>>
taskVars   == <<pc, tickNow, ids, gaps, due, target, phase>>
memoryVars == <<nextToggle, expected, cooldown, windowOpen>>
paceVars   == <<lastFlip, promise, noticed>>
histVars   == <<touched, troubled, dark, lit, paceVars>>
vars == <<worldVars, taskVars, memoryVars, events, histVars>>

-----------------------------------------------------------------------------
(* Pure decisions *)

\* _current_window: is m inside c's window?
InWindow(c, m) == c.enabled /\ c.start <= m /\ m < c.end

\* Mutant: the gap is counted from twice the instant.
DrawNextFar(m, g) == (2 * m + g.min) .. (2 * m + g.max)

\* _draw_next: the instants a toggle drawn at m may be planned for.
DrawNext(m, g) == (m + g.min) .. (m + g.max)

\* Mutant: a light the engine has not written yet counts as changed.
ChangedOrUnset(d) == cached[d] # expected[d]

\* _externally_changed, by the cached state.
ExternallyChanged(d) == expected[d] # "none" /\ cached[d] # expected[d]

Cooling(d, m) == cooldown[d] # Never /\ m < cooldown[d]

\* Mutant: a light without a planned instant is due at once.
DueAtFirstSight(D, m) ==
  {d \in D : ~Cooling(d, m) /\ m >= nextToggle[d]}

\* _due_devices: planned and arrived, and not cooling down.
DueDevices(D, m) ==
  {d \in D : /\ ~Cooling(d, m)
             /\ nextToggle[d] # Never
             /\ m >= nextToggle[d]}

\* _due_devices, first sight: these are only given a planned instant.
Unplanned(D, m) == {d \in D : ~Cooling(d, m) /\ nextToggle[d] = Never}

Opposite(s) == IF s = "on" THEN "off" ELSE "on"

Event == events < MaxEvents /\ events' = events + 1

Busy(d) == phase[d] \in {"send", "read"}

\* The schema's defaults: the simulation off, and no devices.
Defaults == [enabled |-> FALSE, devices |-> {}, start |-> 0, end |-> 0,
             min |-> 1, max |-> 1]

\* VacationStore.load: an unreadable file degrades to the defaults.
Loaded(c) == \/ c = config /\ UNCHANGED events
             \/ c = Defaults /\ Event

NoGaps == [min |-> 1, max |-> 1]

-----------------------------------------------------------------------------
Forget == [d \in Device |-> Never]

Init ==
  /\ now = 0
  /\ live = [d \in Device |-> "off"]
  /\ cached = live
  /\ config \in Configs
  /\ pc = "sleep"
  /\ tickNow = 0 /\ ids = {} /\ gaps = NoGaps /\ due = {} /\ target = "off"
  /\ phase = [d \in Device |-> "idle"]
  /\ nextToggle = Forget /\ cooldown = Forget
  /\ expected = [d \in Device |-> "none"]
  /\ windowOpen = FALSE
  /\ events = 0
  /\ touched = {} /\ troubled = {} /\ dark = {} /\ lit = {}
  /\ lastFlip = Forget /\ noticed = Forget
  /\ promise = [d \in Device |-> 0]

-----------------------------------------------------------------------------
(* The engine task *)

\* run_tick inside the window, up to the first toggle.
BeginTick ==
  /\ pc = "sleep"
  /\ InWindow(config, now)
  /\ pc' = "tick"
  /\ tickNow' = now
  /\ ids' = config.devices
  /\ gaps' = [min |-> config.min, max |-> config.max]
  /\ windowOpen' = TRUE
  /\ due' = DueDevices(config.devices, now)
  /\ \E draw \in [Unplanned(config.devices, now) -> DrawNext(now, config)] :
       nextToggle' = [d \in Device |-> IF d \in DOMAIN draw THEN draw[d]
                                                           ELSE nextToggle[d]]
  /\ dark' = {}
  /\ promise' = [d \in Device |-> IF config.min < promise[d]
                                   THEN config.min ELSE promise[d]]
  /\ UNCHANGED <<worldVars, target, phase, expected, cooldown, events,
                 touched, troubled, lit, lastFlip, noticed>>

\* _close_window's to_off: what it does not take for somebody else's doing.
ToOff(D) == {d \in D : ~ExternallyChanged(d)}

\* Mutant: a simulation that was switched off is not closed.
BeginCloseEnabled(c) ==
  /\ pc = "sleep"
  /\ c.enabled /\ ~InWindow(c, now)
  /\ windowOpen
  /\ Loaded(c)
  /\ pc' = "close"
  /\ tickNow' = now
  /\ ids' = c.devices
  /\ windowOpen' = FALSE
  /\ target' = "off"
  /\ phase' = [d \in Device |-> IF d \in ToOff(c.devices) THEN "send"
                                                        ELSE "idle"]
  /\ lit' = lit \cap c.devices
  /\ UNCHANGED <<worldVars, gaps, due, nextToggle, expected, cooldown,
                 touched, troubled, dark, paceVars>>

\* run_tick outside the window, on the falling edge: _close_window starts
\* switching off the devices of the config it loaded.
BeginClose(c) ==
  /\ pc = "sleep"
  /\ ~InWindow(c, now)
  /\ windowOpen
  /\ Loaded(c)
  /\ pc' = "close"
  /\ tickNow' = now
  /\ ids' = c.devices
  /\ windowOpen' = FALSE
  /\ target' = "off"
  /\ phase' = [d \in Device |-> IF d \in ToOff(c.devices) THEN "send"
                                                        ELSE "idle"]
  /\ lit' = lit \cap c.devices
  /\ UNCHANGED <<worldVars, gaps, due, nextToggle, expected, cooldown,
                 touched, troubled, dark, paceVars>>

\* Mutant: the change is adopted, but no cooldown starts.
AdoptOnly(d) ==
  /\ pc = "tick"
  /\ d \in due
  /\ ExternallyChanged(d)
  /\ due' = due \ {d}
  /\ expected' = [expected EXCEPT ![d] = cached[d]]
  /\ noticed' = [noticed EXCEPT ![d] = tickNow]
  /\ \E t \in DrawNext(tickNow, gaps) :
       nextToggle' = [nextToggle EXCEPT ![d] = t]
  /\ UNCHANGED <<worldVars, pc, tickNow, ids, gaps, target, phase, cooldown,
                 windowOpen, events, touched, troubled, dark, lit, lastFlip,
                 promise>>

\* _toggle, an external change: leave d alone for a while, adopt its state.
BackOff(d) ==
  /\ pc = "tick"
  /\ d \in due
  /\ ExternallyChanged(d)
  /\ due' = due \ {d}
  /\ cooldown' = [cooldown EXCEPT ![d] = tickNow + Cooldown]
  /\ expected' = [expected EXCEPT ![d] = cached[d]]
  /\ \E t \in DrawNext(tickNow, gaps) :
       nextToggle' = [nextToggle EXCEPT ![d] = t]
  /\ noticed' = [noticed EXCEPT ![d] = tickNow]
  /\ UNCHANGED <<worldVars, pc, tickNow, ids, gaps, target, phase, windowOpen,
                 events, touched, troubled, dark, lit, lastFlip, promise>>

\* _toggle otherwise: flip relative to the expectation, "on" without one.
StartToggle(d) ==
  /\ pc = "tick"
  /\ d \in due
  /\ ~ExternallyChanged(d)
  /\ pc' = "io"
  /\ target' = Opposite(expected[d])
  /\ phase' = [phase EXCEPT ![d] = "send"]
  /\ UNCHANGED <<worldVars, tickNow, ids, gaps, due, memoryVars, events,
                 histVars>>

\* History: the command of a toggle, not of a closing, is sent now.
NoteFlip(d) ==
  IF pc = "io"
    THEN /\ lastFlip' = [lastFlip EXCEPT ![d] = tickNow]
         /\ promise' = [promise EXCEPT ![d] = gaps.min]
    ELSE UNCHANGED <<lastFlip, promise>>

\* set_power, first await: the command reaches the relay and is answered.
Switch(d) ==
  /\ phase[d] = "send"
  /\ live' = [live EXCEPT ![d] = target]
  /\ phase' = [phase EXCEPT ![d] = "read"]
  /\ NoteFlip(d)
  /\ lit' = IF target = "on" THEN lit \cup {d} ELSE lit \ {d}
  /\ UNCHANGED <<now, cached, config, pc, tickNow, ids, gaps, due, target,
                 memoryVars, events, touched, troubled, dark, noticed>>

\* The command fails: the device is not in the registry or does not answer,
\* or it obeys and only the answer is lost.
SwitchFails(d) ==
  /\ phase[d] = "send"
  /\ Event
  /\ \E s \in {live[d], target} : live' = [live EXCEPT ![d] = s]
  /\ phase' = [phase EXCEPT ![d] = "failed"]
  /\ troubled' = troubled \cup {d}
  /\ NoteFlip(d)
  /\ lit' = lit \ {d}
  /\ UNCHANGED <<now, cached, config, pc, tickNow, ids, gaps, due, target,
                 memoryVars, touched, dark, noticed>>

\* set_power, second await: the read-back, whose failure is not reported.
ReadBack(d) ==
  /\ phase[d] = "read"
  /\ phase' = [phase EXCEPT ![d] = "ok"]
  /\ \/ cached' = [cached EXCEPT ![d] = live[d]]
        /\ UNCHANGED <<troubled, lit, events>>
     \/ /\ Event
        /\ troubled' = troubled \cup {d} /\ lit' = lit \ {d}
        /\ UNCHANGED cached
  /\ UNCHANGED <<now, live, config, pc, tickNow, ids, gaps, due, target,
                 memoryVars, touched, dark, paceVars>>

\* set_power_many returns to _toggle: note a success, draw again either way.
EndToggle(d) ==
  /\ pc = "io"
  /\ d \in due
  /\ phase[d] \in {"ok", "failed"}
  /\ pc' = "tick"
  /\ due' = due \ {d}
  /\ phase' = [phase EXCEPT ![d] = "idle"]
  /\ expected' = IF phase[d] = "ok" THEN [expected EXCEPT ![d] = target]
                                    ELSE expected
  /\ \E t \in DrawNext(tickNow, gaps) :
       nextToggle' = [nextToggle EXCEPT ![d] = t]
  /\ target' = "off"
  /\ UNCHANGED <<worldVars, tickNow, ids, gaps, cooldown, windowOpen, events,
                 histVars>>

\* The locals of a tick are dead once it ends.
EndOfLocals ==
  tickNow' = 0 /\ ids' = {} /\ gaps' = NoGaps /\ target' = "off"

\* No due device left: sleep until the next tick.
EndTick ==
  /\ pc = "tick"
  /\ due = {}
  /\ pc' = "sleep"
  /\ EndOfLocals
  /\ UNCHANGED <<worldVars, due, phase, memoryVars, events, histVars>>

\* set_power_many returns to _close_window: nothing is carried over to the
\* next evening.
EndClose ==
  /\ pc = "close"
  /\ \A d \in Device : ~Busy(d)
  /\ pc' = "sleep"
  /\ phase' = [d \in Device |-> "idle"]
  /\ nextToggle' = Forget /\ cooldown' = Forget
  /\ expected' = [d \in Device |-> "none"]
  /\ dark' = ids \ (touched \cup troubled)
  /\ noticed' = Forget
  /\ EndOfLocals
  /\ touched' = {} /\ troubled' = {}
  /\ UNCHANGED <<worldVars, due, windowOpen, events, lit, lastFlip, promise>>

-----------------------------------------------------------------------------
(* Everybody else *)

\* A person, a schedule rule or another client switches d.
Outside(d) ==
  /\ Event
  /\ live' = [live EXCEPT ![d] = Opposite(@)]
  /\ touched' = IF windowOpen \/ pc = "close" THEN touched \cup {d} ELSE {}
  /\ dark' = dark \ {d} /\ lit' = lit \ {d}
  /\ UNCHANGED <<now, cached, config, taskVars, memoryVars, troubled,
                 paceVars>>

\* Some task of the server reads d.
Refresh(d) ==
  /\ cached' = [cached EXCEPT ![d] = live[d]]
  /\ UNCHANGED <<now, live, config, taskVars, memoryVars, events, histVars>>

\* PUT /api/vacation, or an edit of a room the config names.
PutConfig(c) ==
  /\ Event
  /\ config' = c
  /\ UNCHANGED <<now, live, cached, taskVars, memoryVars, histVars>>

\* The process stops and starts again: only the config file survives, and
\* startup discovery reads every device anew.
Restart ==
  /\ Event
  /\ cached' = live
  /\ pc' = "sleep"
  /\ EndOfLocals /\ due' = {}
  /\ phase' = [d \in Device |-> "idle"]
  /\ nextToggle' = Forget /\ cooldown' = Forget
  /\ expected' = [d \in Device |-> "none"]
  /\ windowOpen' = FALSE
  /\ noticed' = Forget
  /\ touched' = {} /\ troubled' = {} /\ lit' = {}
  /\ UNCHANGED <<now, live, config, dark, lastFlip, promise>>

\* Bound: the clock stops at Horizon.
Tick ==
  /\ now < Horizon
  /\ now' = now + 1
  /\ UNCHANGED <<live, cached, config, taskVars, memoryVars, events,
                 histVars>>

-----------------------------------------------------------------------------
Task ==
  \/ BeginTick \/ EndTick \/ EndClose
  \/ \E c \in {config, Defaults} : BeginClose(c)
  \/ \E d \in Device : BackOff(d) \/ StartToggle(d) \/ EndToggle(d)

IO == \E d \in Device : Switch(d) \/ SwitchFails(d) \/ ReadBack(d)

Others ==
  \/ \E d \in Device : Outside(d) \/ Refresh(d)
  \/ \E c \in Configs : PutConfig(c)

Next == Task \/ IO \/ Others \/ Restart \/ Tick

Spec == Init /\ [][Next]_vars

\* The event loop runs the task, device I/O ends one way or the other
\* (python-kasa times out), the clock advances.
FairSpec == Spec /\ WF_vars(Task) /\ WF_vars(IO) /\ WF_vars(Tick)

-----------------------------------------------------------------------------
(* Properties *)

TypeOK ==
  /\ now \in Time /\ tickNow \in Time
  /\ live \in [Device -> Relay] /\ cached \in [Device -> Relay]
  /\ config \in Configs
  /\ pc \in {"sleep", "tick", "io", "close"}
  /\ ids \subseteq Device /\ due \subseteq Device /\ target \in Relay
  /\ gaps \in Gaps
  /\ phase \in [Device -> {"idle", "send", "read", "ok", "failed"}]
  /\ nextToggle \in [Device -> {Never} \cup 0 .. Horizon + MaxGap]
  /\ expected \in [Device -> Relay \cup {"none"}]
  /\ cooldown \in [Device -> {Never} \cup 0 .. Horizon + Cooldown]
  /\ windowOpen \in BOOLEAN
  /\ events \in 0 .. MaxEvents
  /\ touched \subseteq Device /\ troubled \subseteq Device
  /\ dark \subseteq Device /\ lit \subseteq Device
  /\ promise \in [Device -> 0 .. MaxGap]
  /\ lastFlip \in [Device -> {Never} \cup Time]
  /\ noticed \in [Device -> {Never} \cup Time]

\* Once a window has closed, every device of the config whose commands went
\* through and which nobody else changed since it opened is off, and stays
\* off until somebody switches it or the next window opens.
LeavesHouseDark == \A d \in dark : live[d] = "off"

\* The command of a toggle goes out, to whatever effect.
FlipSent(d) == /\ pc = "io" /\ pc' = "io"
               /\ phase[d] = "send"
               /\ phase'[d] # "send"

\* When the simulation sends a light a command, at least the smallest minimum
\* interval it ran a tick with since the previous one has passed since the tick
\* that one belonged to: not even a restart, a PUT that changes the intervals or
\* closes and reopens the window, an unreadable config or a failed command
\* (which must not be retried at every tick) makes it flicker.  Two commands
\* themselves may be closer, by what the earlier one was late in its tick.
NoRapidFlips ==
  [][\A d \in Device :
       FlipSent(d) =>
         lastFlip[d] = Never \/ now - lastFlip[d] >= promise[d]]_vars

\* After it noticed somebody's change, the simulation does not switch that
\* light for the cooldown, whatever is edited meanwhile (until the window
\* closes: that forgets everything).
CooldownKept ==
  [][\A d \in Device :
       StartToggle(d) =>
         noticed[d] = Never \/ tickNow - noticed[d] >= Cooldown]_vars

\* The closing spares a light somebody is using: one that somebody switched
\* this evening and that is in its cooldown for it.
CloseSparesCooling ==
  [][(\E c \in {config, Defaults} : BeginClose(c)) =>
       \A d \in touched : Cooling(d, now) => phase'[d] = "idle"]_vars

\* A light that the simulation switched on goes off in the end, whatever is PUT
\* meanwhile: by the next toggle, or because the end of the window, or switching
\* the simulation off, runs the all-off with it.
EveryLightGoesOff == \A d \in Device : d \in lit ~> d \notin lit

=============================================================================
