-------------------------------- MODULE Alerts --------------------------------
(***************************************************************************)
(* The alerts: the evaluator task and its debouncing state machine         *)
(* (api/alerts.py), on top of what it reads: the registry's cache and miss *)
(* streaks as the discovery passes and the refreshers leave them           *)
(* (api/kasa_service.py) and the rows of the energy recorder               *)
(* (api/energy_history.py).                                                *)
(*                                                                         *)
(* The host store knows every device, so one that is not cached is listed  *)
(* as unreachable from its snapshot.  Tasks interleave at every await; a   *)
(* step is what runs between two of them.                                  *)
(***************************************************************************)
EXTENDS Integers, FiniteSets

CONSTANTS
  Device,      \* the devices of the host store
  Metered,     \* those with an energy meter
  Watts,       \* power draws
  Limits,      \* thresholds a client may set
  Misses,      \* _UNREACHABLE_AFTER_MISSES
  MaxEvents    \* bound: outages and recoveries, lost reads, changes of load,
               \* threshold edits, cycles that cannot read the thresholds,
               \* manual rediscoveries and restarts, together

NoLimit == -1
Unknown == -1
Pass    == {"startup", "manual"}
Idle    == [phase |-> "idle", todo |-> {}]
StartupScan == [startup |-> [Idle EXCEPT !.phase = "scan"], manual |-> Idle]
Draft   == [type : {"unreachable", "recovered", "power"}, dev : Device]

ASSUME AlertBounds ==
  /\ Misses \in Nat \ {0} /\ MaxEvents \in Nat
  /\ Watts \subseteq Nat /\ Watts # {} /\ Limits \subseteq Nat
  /\ Metered \subseteq Device

VARIABLES
  up,           \* devices that answer
  draw,         \* draw[d]: watts drawn by a metered d
  cached,       \* ids in _devices
  misses,       \* _miss_counts; bound: counted up to Misses
  meter,        \* meter[d]: the power d's object last read
  discovering,  \* the flag of the startup sweep
  scan,         \* scan[p]: how far discovery pass p is
  row,          \* row[d]: the latest recorded power
  fresh,        \* devices whose latest row is not too old
  limit,        \* the threshold store
  pc,           \* where the evaluator is: sleep, refresh or emit
  todo,         \* devices its refresh_all still reads
  seen,         \* _reachable
  over,         \* _over_threshold
  pending,      \* drafts not emitted yet
  told,         \* told[d]: what the last alert about d's reachability said;
                \* "again" when the one before said the same
  events,       \* how many of the bounded events there were
  \* history, read by the properties only
  disturbed,    \* what happened so far: outages or lost reads, rediscoveries
  lowered       \* devices with a row at or below their threshold, an edit of it
                \* or a cycle that could not read it, since their last power
                \* alert was decided

worldVars    == <<up, draw>>
registryVars == <<cached, misses, meter, discovering, scan>>
storeVars    == <<row, fresh, limit>>
taskVars     == <<pc, todo, seen, over, pending, told>>
histVars     == <<disturbed, lowered>>
vars == <<worldVars, registryVars, storeVars, taskVars, events, histVars>>

-----------------------------------------------------------------------------
Event == events < MaxEvents /\ events' = events + 1

\* An event after which alerts are no surprise.
Disturbance(what) == Event /\ disturbed' = disturbed \cup {what}

\* is_reachable for a cached device; any other is listed as unreachable.
Reachable(d) == d \in cached /\ misses[d] < Misses

\* latest_power_by_device.
Power(d) == IF d \in fresh THEN row[d] ELSE Unknown

Exceeds(w, l) == w # Unknown /\ l # NoLimit /\ w > l

Init ==
  /\ up \in SUBSET Device
  /\ draw \in [Metered -> Watts]
  /\ cached = {}
  /\ misses = [d \in Device |-> 0]
  /\ meter = [d \in Device |-> Unknown]
  /\ discovering = TRUE
  /\ scan = StartupScan
  /\ row = [d \in Device |-> Unknown]
  /\ fresh = {}
  /\ limit \in {l \in [Device -> Limits \cup {NoLimit}] :
                 \A d \in Device \ Metered : l[d] = NoLimit}
  /\ pc = "sleep" /\ todo = {}
  /\ seen = [d \in Device |-> "never"]
  /\ over = [d \in Device |-> FALSE]
  /\ pending = {}
  /\ told = [d \in Device |-> "nothing"]
  /\ events = 0
  /\ disturbed = {}
  /\ lowered = Device

-----------------------------------------------------------------------------
(* Reads of the hardware *)

\* Mutant: a success does not end the streak.
ReadKeepsStreak(d, ok) ==
  IF ok THEN /\ UNCHANGED misses
             /\ meter' = [meter EXCEPT ![d] = IF d \in Metered THEN draw[d]
                                                               ELSE Unknown]
        ELSE /\ misses' = [misses EXCEPT ![d] = IF @ < Misses THEN @ + 1 ELSE @]
             /\ UNCHANGED meter

\* Mutant: misses are counted without the bound.
ReadCountsOn(d, ok) ==
  IF ok THEN /\ misses' = [misses EXCEPT ![d] = 0]
             /\ meter' = [meter EXCEPT ![d] = IF d \in Metered THEN draw[d]
                                                               ELSE Unknown]
        ELSE /\ misses' = [misses EXCEPT ![d] = @ + 1]
             /\ UNCHANGED meter

\* _refresh of an object of d: every outcome feeds the miss streak.
Read(d, ok) ==
  IF ok THEN /\ misses' = [misses EXCEPT ![d] = 0]
             /\ meter' = [meter EXCEPT ![d] = IF d \in Metered THEN draw[d]
                                                               ELSE Unknown]
        ELSE /\ misses' = [misses EXCEPT ![d] = IF @ < Misses THEN @ + 1 ELSE @]
             /\ UNCHANGED meter

\* The read ends as the device is, or it is lost although the device is up.
Outcome(d, ok) ==
  \/ ok = (d \in up) /\ UNCHANGED <<events, disturbed>>
  \/ d \in up /\ ~ok /\ Disturbance("outage")

\* Any task but the evaluator refreshes a cached device.
Refresh(d, ok) ==
  /\ d \in cached
  /\ Outcome(d, ok)
  /\ Read(d, ok)
  /\ UNCHANGED <<worldVars, cached, discovering, scan, storeVars, taskVars,
                 lowered>>

\* run_recorder, for one device of its cycle.  Its refresh is a Refresh above;
\* the outcome is ignored and the object's reading recorded as current.
Record(d) ==
  /\ d \in cached \cap Metered
  /\ meter[d] # Unknown
  /\ row' = [row EXCEPT ![d] = meter[d]]
  /\ fresh' = fresh \cup {d}
  /\ lowered' = lowered \cup (IF Exceeds(meter[d], limit[d]) THEN {} ELSE {d})
  /\ UNCHANGED <<worldVars, registryVars, limit, taskVars, events, disturbed>>

\* The latest row grows older than _POWER_STALENESS_SECONDS.
Expire(d) ==
  /\ d \in fresh
  /\ fresh' = fresh \ {d}
  /\ UNCHANGED <<worldVars, registryVars, row, limit, taskVars, events,
                 histVars>>

-----------------------------------------------------------------------------
(* Discovery passes: discover_all, at startup or by POST /api/discover *)

Rediscover ==
  /\ scan["manual"] = Idle
  /\ Disturbance("rediscovery")
  /\ scan' = [scan EXCEPT !["manual"].phase = "scan"]
  /\ UNCHANGED <<worldVars, cached, misses, meter, discovering, storeVars,
                 taskVars, lowered>>

\* The broadcast returns: the cache is emptied, to be rebuilt one by one.
Found(p, F) ==
  /\ scan[p].phase = "scan"
  /\ \/ F = up /\ UNCHANGED <<events, disturbed>>
     \/ F \subseteq up /\ F # up /\ Disturbance("outage")
  /\ cached' = {}
  /\ scan' = [scan EXCEPT ![p] = [phase |-> "read", todo |-> F]]
  /\ UNCHANGED <<worldVars, misses, meter, discovering, storeVars, taskVars,
                 lowered>>

\* The broadcast fails: the exception ends the pass, and the startup flag.
ScanFails(p) ==
  /\ scan[p].phase = "scan"
  /\ Disturbance("outage")
  /\ scan' = [scan EXCEPT ![p] = Idle]
  /\ discovering' = (discovering /\ p # "startup")
  /\ UNCHANGED <<worldVars, cached, misses, meter, storeVars, taskVars,
                 lowered>>

\* A device of the broadcast is read, and kept when that works.
ReadFound(p, d, ok) ==
  /\ scan[p].phase = "read"
  /\ d \in scan[p].todo
  /\ Outcome(d, ok)
  /\ Read(d, ok)
  /\ cached' = IF ok THEN cached \cup {d} ELSE cached
  /\ scan' = [scan EXCEPT ![p].todo = @ \ {d}]
  /\ UNCHANGED <<worldVars, discovering, storeVars, taskVars, lowered>>

\* Then every known host that is not in the cache is probed.
BeginProbes(p) ==
  /\ scan[p] = [phase |-> "read", todo |-> {}]
  /\ scan' = [scan EXCEPT ![p] = [phase |-> "probe", todo |-> Device \ cached]]
  /\ UNCHANGED <<worldVars, cached, misses, meter, discovering, storeVars,
                 taskVars, events, histVars>>

\* _probe_host: no answer (the read is not even tried), or a read.
Probe(p, d, ok) ==
  /\ scan[p].phase = "probe"
  /\ d \in scan[p].todo
  /\ Outcome(d, ok)
  /\ IF ok \/ d \in up THEN Read(d, ok) \/ (~ok /\ UNCHANGED <<misses, meter>>)
                       ELSE UNCHANGED <<misses, meter>>
  /\ cached' = IF ok THEN cached \cup {d} ELSE cached
  /\ scan' = [scan EXCEPT ![p].todo = @ \ {d}]
  /\ UNCHANGED <<worldVars, discovering, storeVars, taskVars, lowered>>

\* The pass ends; the startup pass also clears the flag.
EndScan(p) ==
  /\ scan[p] = [phase |-> "probe", todo |-> {}]
  /\ scan' = [scan EXCEPT ![p] = Idle]
  /\ discovering' = (discovering /\ p # "startup")
  /\ UNCHANGED <<worldVars, cached, misses, meter, storeVars, taskVars, events,
                 histVars>>

-----------------------------------------------------------------------------
(* The evaluator task *)

\* Mutant: the cycle does not look at the flag.
BeginCycleAlways ==
  /\ pc = "sleep"
  /\ pc' = "refresh"
  /\ \E D \in {cached, {}} : todo' = D
  /\ UNCHANGED <<worldVars, registryVars, storeVars, seen, over, pending, told,
                 events, histVars>>

\* A cycle starts unless the startup sweep runs; refresh_all_if_stale reads
\* every cached device, or none when somebody just did.
BeginCycle ==
  /\ pc = "sleep"
  /\ ~discovering
  /\ pc' = "refresh"
  /\ \E D \in {cached, {}} : todo' = D
  /\ UNCHANGED <<worldVars, registryVars, storeVars, seen, over, pending, told,
                 events, histVars>>

OwnRead(d, ok) ==
  /\ pc = "refresh"
  /\ d \in todo
  /\ Outcome(d, ok)
  /\ Read(d, ok)
  /\ todo' = todo \ {d}
  /\ UNCHANGED <<worldVars, cached, discovering, scan, storeVars, pc, seen,
                 over, pending, told, lowered>>

\* Mutant: every cycle that finds a device unreachable says so.
ReachabilityEveryCycle ==
  {[type |-> "unreachable", dev |-> d] : d \in {e \in Device : ~Reachable(e)}}
  \cup
  {[type |-> "recovered", dev |-> d] :
     d \in {e \in Device : seen[e] = "down" /\ Reachable(e)}}

\* _reachability: the drafts of this cycle, only on a change.
Reachability ==
  {[type |-> "unreachable", dev |-> d] :
     d \in {e \in Device : seen[e] = "up" /\ ~Reachable(e)}}
  \cup
  {[type |-> "recovered", dev |-> d] :
     d \in {e \in Device : seen[e] = "down" /\ Reachable(e)}}

NoLimits == [d \in Device |-> NoLimit]

\* get_all: an unreadable threshold file gives no thresholds this cycle.
Thresholds(L) == \/ L = limit /\ UNCHANGED events
                 \/ L = NoLimits /\ Event

\* Mutant: an unknown draw re-arms.
OverAfterRearming(L) == [d \in Device |-> Exceeds(Power(d), L[d])]

\* _power: cleared with the threshold, held while the draw is unknown.
OverAfter(L) ==
  [d \in Device |-> IF Power(d) = Unknown /\ L[d] # NoLimit
                      THEN over[d] ELSE Exceeds(Power(d), L[d])]

PowerDrafts(L) ==
  {[type |-> "power", dev |-> d] :
     d \in {e \in Device : Exceeds(Power(e), L[e]) /\ ~over[e]}}

\* collect_readings and evaluate, on the registry and the thresholds as they
\* are read now.
Evaluate(L) ==
  /\ pc = "refresh"
  /\ todo = {}
  /\ Thresholds(L)
  /\ pc' = "emit"
  /\ pending' = Reachability \cup PowerDrafts(L)
  /\ seen' = [d \in Device |-> IF Reachable(d) THEN "up" ELSE "down"]
  /\ over' = OverAfter(L)
  /\ lowered' = IF L = limit THEN lowered \ {x.dev : x \in PowerDrafts(L)}
                             ELSE Device
  /\ UNCHANGED <<worldVars, registryVars, storeVars, todo, told, disturbed>>

Word == [unreachable |-> "down", recovered |-> "up"]

\* told after alert x.
Say(x) ==
  IF x.type = "power" THEN told
  ELSE [told EXCEPT ![x.dev] = IF @ = Word[x.type] THEN "again"
                                                   ELSE Word[x.type]]

\* Mutant: one alert of the cycle is emitted, the others are dropped.
EmitForgets(x) ==
  /\ pc = "emit"
  /\ x \in pending
  /\ pending' = {}
  /\ told' = Say(x)
  /\ UNCHANGED <<worldVars, registryVars, storeVars, pc, todo, seen, over,
                 events, histVars>>

\* emit, then the webhook, whose failure is swallowed.
Emit(x) ==
  /\ pc = "emit"
  /\ x \in pending
  /\ pending' = pending \ {x}
  /\ told' = Say(x)
  /\ UNCHANGED <<worldVars, registryVars, storeVars, pc, todo, seen, over,
                 events, histVars>>

EndCycle ==
  /\ pc = "emit"
  /\ pending = {}
  /\ pc' = "sleep"
  /\ UNCHANGED <<worldVars, registryVars, storeVars, todo, seen, over, pending,
                 told, events, histVars>>

-----------------------------------------------------------------------------
(* The world, the clients, the process *)

\* d stops answering, or answers again.
Outage(d) ==
  /\ Disturbance("outage")
  /\ up' = IF d \in up THEN up \ {d} ELSE up \cup {d}
  /\ UNCHANGED <<draw, registryVars, storeVars, taskVars, lowered>>

Load(d, w) ==
  /\ d \in Metered /\ draw[d] # w
  /\ Event
  /\ draw' = [draw EXCEPT ![d] = w]
  /\ UNCHANGED <<up, registryVars, storeVars, taskVars, histVars>>

\* PUT /api/alerts/thresholds replaces the whole mapping by the client's, which
\* lacks the others' thresholds when its own read of them came back empty.
SetLimits(L) ==
  /\ Event
  /\ limit' = [d \in Device |-> IF d \in Metered THEN L[d] ELSE NoLimit]
  /\ lowered' = lowered \cup {d \in Device : limit'[d] # limit[d]}
  /\ UNCHANGED <<worldVars, registryVars, row, fresh, taskVars, disturbed>>

\* Only the files survive: host store, thresholds and rows.
Restart ==
  /\ Event
  /\ cached' = {} /\ discovering' = TRUE
  /\ misses' = [d \in Device |-> 0]
  /\ meter' = [d \in Device |-> Unknown]
  /\ scan' = StartupScan
  /\ pc' = "sleep" /\ todo' = {} /\ pending' = {}
  /\ seen' = [d \in Device |-> "never"]
  /\ over' = [d \in Device |-> FALSE]
  /\ told' = [d \in Device |-> "nothing"]
  /\ lowered' = Device
  /\ UNCHANGED <<worldVars, storeVars, disturbed>>

-----------------------------------------------------------------------------
ScanStep(p) ==
  \/ \E F \in SUBSET up : Found(p, F)
  \/ \E d \in Device, ok \in BOOLEAN : ReadFound(p, d, ok) \/ Probe(p, d, ok)
  \/ BeginProbes(p) \/ ScanFails(p) \/ EndScan(p)

Cycle ==
  \/ BeginCycle \/ EndCycle
  \/ \E L \in {limit, NoLimits} : Evaluate(L)
  \/ \E d \in Device, ok \in BOOLEAN : OwnRead(d, ok)
  \/ \E x \in Draft : Emit(x)

Others ==
  \/ \E d \in Device, ok \in BOOLEAN : Refresh(d, ok)
  \/ \E d \in Device : Record(d) \/ Expire(d)

World ==
  \/ \E d \in Device : Outage(d)
  \/ \E d \in Device, w \in Watts : Load(d, w)
  \/ \E L \in [Metered -> Limits \cup {NoLimit}] : SetLimits(L)

Next ==
  \/ \E p \in Pass : ScanStep(p)
  \/ Cycle \/ Others \/ World \/ Rediscover \/ Restart

Spec == Init /\ [][Next]_vars

\* The event loop runs every task and a read ends either way (python-kasa
\* times out).  Every cached device is read again and again: by the evaluator
\* whenever nobody else did it within half its interval.
FairSpec ==
  /\ Spec
  /\ WF_vars(Cycle)
  /\ \A p \in Pass : WF_vars(ScanStep(p))
  /\ \A d \in Device : WF_vars(\E ok \in BOOLEAN : Refresh(d, ok))

-----------------------------------------------------------------------------
(* Properties *)

TypeOK ==
  /\ up \subseteq Device /\ draw \in [Metered -> Watts]
  /\ cached \subseteq Device
  /\ misses \in [Device -> 0 .. Misses]
  /\ meter \in [Device -> Watts \cup {Unknown}]
  /\ discovering \in BOOLEAN
  /\ scan \in [Pass -> [phase : {"idle", "scan", "read", "probe"},
                        todo : SUBSET Device]]
  /\ row \in [Device -> Watts \cup {Unknown}]
  /\ fresh \subseteq Device
  /\ limit \in [Device -> Limits \cup {NoLimit}]
  /\ pc \in {"sleep", "refresh", "emit"} /\ todo \subseteq Device
  /\ seen \in [Device -> {"never", "up", "down"}]
  /\ over \in [Device -> BOOLEAN]
  /\ pending \subseteq Draft
  /\ told \in [Device -> {"nothing", "down", "up", "again"}]
  /\ events \in 0 .. MaxEvents
  /\ disturbed \subseteq {"outage", "rediscovery"}
  /\ lowered \subseteq Device

\* While no device ever failed and nobody rediscovered, there is no alert
\* about reachability: not by the startup sweep racing the evaluator (main.py:
\* "must not sneak in a first cycle"), nor by any restart.
QuietHouseQuiet == disturbed = {} => \A d \in Device : told[d] = "nothing"

\* One incident, one alert, whatever passes, refreshers and the evaluator
\* interleave: the alerts implement AlertIncidents.
Incidents == INSTANCE AlertIncidents WITH Device <- Device, told <- told
OneIncidentOneAlert == Incidents!Spec

\* A second power alert about a device takes a row at or below its threshold, an
\* edit of it or a cycle that could not read it since the first was decided: a
\* gap in the rows, an outage, a rediscovery or an edit of other thresholds is
\* not the end of an incident.
PowerOncePerIncident ==
  [][\A d \in Device, L \in {limit, NoLimits} :
       Evaluate(L) /\ [type |-> "power", dev |-> d] \in PowerDrafts(L)
         => d \in lowered]_vars

\* A device the user was last told is fine, or nothing, and that the
\* evaluator has seen up, cannot stay away without an alert.
OutageAnnounced ==
  \A d \in Device :
    (seen[d] = "up" /\ d \notin up) ~>
      (told[d] = "down" \/ d \in up \/ seen[d] = "never")

\* A device reported gone that answers again and is still cached is reported
\* back: misses of different tasks cannot keep a healthy device down.
RecoveryAnnounced ==
  \A d \in Device :
    (told[d] = "down" /\ d \in up /\ d \in cached) ~>
      (told[d] # "down" \/ d \notin up \/ d \notin cached)

=============================================================================
