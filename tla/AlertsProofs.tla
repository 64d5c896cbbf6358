----------------------------- MODULE AlertsProofs -----------------------------
(***************************************************************************)
(* Proofs about Alerts, for every set of devices, meters, draws and        *)
(* thresholds, every number of misses and of events.                       *)
(***************************************************************************)
EXTENDS Alerts, TLAPS

USE AlertBounds DEF NoLimit, Unknown

-----------------------------------------------------------------------------
(* Types *)

\* A read keeps the streaks within their bound and reads a draw.
LEMMA ReadType ==
  ASSUME TypeOK, NEW d \in Device, NEW ok \in BOOLEAN, Read(d, ok)
  PROVE  /\ misses' \in [Device -> 0 .. Misses]
         /\ meter' \in [Device -> Watts \cup {Unknown}]
  BY DEF TypeOK, Read

\* The outcome of a read is counted at most as one more event.
LEMMA OutcomeType ==
  ASSUME TypeOK, NEW d \in Device, NEW ok \in BOOLEAN, Outcome(d, ok)
  PROVE  /\ events' \in 0 .. MaxEvents
         /\ disturbed' \subseteq {"outage", "rediscovery"}
<1>1. CASE UNCHANGED <<events, disturbed>>
  BY <1>1 DEF TypeOK
<1>2. CASE Disturbance("outage")
  BY <1>2 DEF TypeOK, Disturbance, Event
<1> QED BY <1>1, <1>2 DEF Outcome

\* A cycle's evaluation, and an edit of the thresholds.
Evaluates == \E L \in {limit, NoLimits} : Evaluate(L)
Edits == \E L \in [Metered -> Limits \cup {NoLimit}] : SetLimits(L)


LEMMA TypeInit == Init => TypeOK
  BY DEF Init, TypeOK, StartupScan, Idle, Pass

LEMMA TypeNext == TypeOK /\ [Next]_vars => TypeOK'
<1> SUFFICES ASSUME TypeOK, [Next]_vars PROVE TypeOK'
  OBVIOUS
<1> USE DEF worldVars, registryVars, storeVars, taskVars, histVars
<1>1. ASSUME NEW d \in Device, NEW ok \in BOOLEAN, Refresh(d, ok)
      PROVE  TypeOK'
  BY <1>1, ReadType, OutcomeType DEF TypeOK, Refresh
<1>2. ASSUME NEW d \in Device, Record(d) PROVE TypeOK'
  BY <1>2 DEF TypeOK, Record
<1>3. ASSUME NEW d \in Device, Expire(d) PROVE TypeOK'
  BY <1>3 DEF TypeOK, Expire
<1>4. CASE Rediscover
  <2>1. scan' \in [Pass -> [phase : {"idle", "scan", "read", "probe"},
                            todo : SUBSET Device]]
    BY <1>4 DEF TypeOK, Rediscover, Pass
  <2>2. /\ events' \in 0 .. MaxEvents
        /\ disturbed' \subseteq {"outage", "rediscovery"}
    BY <1>4 DEF TypeOK, Rediscover, Disturbance, Event
  <2> QED BY <1>4, <2>1, <2>2 DEF TypeOK, Rediscover
<1>5. ASSUME NEW p \in Pass, NEW F \in SUBSET up, Found(p, F) PROVE TypeOK'
  <2>1. /\ events' \in 0 .. MaxEvents
        /\ disturbed' \subseteq {"outage", "rediscovery"}
    <3>1. CASE UNCHANGED <<events, disturbed>>
      BY <3>1 DEF TypeOK
    <3>2. CASE Disturbance("outage")
      BY <3>2 DEF TypeOK, Disturbance, Event
    <3> QED BY <1>5, <3>1, <3>2 DEF Found
  <2>2. scan' \in [Pass -> [phase : {"idle", "scan", "read", "probe"},
                            todo : SUBSET Device]]
    BY <1>5 DEF TypeOK, Found
  <2> QED BY <1>5, <2>1, <2>2 DEF TypeOK, Found
<1>6. ASSUME NEW p \in Pass, ScanFails(p) PROVE TypeOK'
  BY <1>6 DEF TypeOK, ScanFails, Disturbance, Event, Idle
<1>7. ASSUME NEW p \in Pass, NEW d \in Device, NEW ok \in BOOLEAN,
             ReadFound(p, d, ok)
      PROVE  TypeOK'
  <2>1. Read(d, ok) /\ Outcome(d, ok)
    BY <1>7 DEF ReadFound
  <2>2. cached' \subseteq Device
    BY <1>7 DEF TypeOK, ReadFound
  <2>3. scan' \in [Pass -> [phase : {"idle", "scan", "read", "probe"},
                            todo : SUBSET Device]]
    BY <1>7 DEF TypeOK, ReadFound
  <2> QED BY <1>7, <2>1, <2>2, <2>3, ReadType, OutcomeType
          DEF TypeOK, ReadFound
<1>8. ASSUME NEW p \in Pass, BeginProbes(p) PROVE TypeOK'
  BY <1>8 DEF TypeOK, BeginProbes
<1>9. ASSUME NEW p \in Pass, NEW d \in Device, NEW ok \in BOOLEAN,
             Probe(p, d, ok)
      PROVE  TypeOK'
  <2>1. /\ misses' \in [Device -> 0 .. Misses]
        /\ meter' \in [Device -> Watts \cup {Unknown}]
    BY <1>9, ReadType DEF TypeOK, Probe
  <2>2. cached' \subseteq Device
    BY <1>9 DEF TypeOK, Probe
  <2>3. scan' \in [Pass -> [phase : {"idle", "scan", "read", "probe"},
                            todo : SUBSET Device]]
    BY <1>9 DEF TypeOK, Probe
  <2> QED BY <1>9, <2>1, <2>2, <2>3, OutcomeType DEF TypeOK, Probe
<1>10. ASSUME NEW p \in Pass, EndScan(p) PROVE TypeOK'
  BY <1>10 DEF TypeOK, EndScan, Idle
<1>11. CASE BeginCycle
  BY <1>11 DEF TypeOK, BeginCycle
<1>12. ASSUME NEW d \in Device, NEW ok \in BOOLEAN, OwnRead(d, ok)
       PROVE  TypeOK'
  BY <1>12, ReadType, OutcomeType DEF TypeOK, OwnRead
<1>13. ASSUME NEW L \in {limit, NoLimits}, Evaluate(L) PROVE TypeOK'
  <2>5. events' \in 0 .. MaxEvents
    BY <1>13 DEF Evaluate, Thresholds, Event, TypeOK
  <2>1. pending' \subseteq Draft
    BY <1>13 DEF Evaluate, Reachability, PowerDrafts, Draft
  <2>2. seen' \in [Device -> {"never", "up", "down"}]
    BY <1>13 DEF Evaluate
  <2>3. over' \in [Device -> BOOLEAN]
    BY <1>13 DEF Evaluate, OverAfter, Exceeds, TypeOK
  <2>4. lowered' \subseteq Device
    BY <1>13 DEF Evaluate, TypeOK
  <2> QED BY <1>13, <2>1, <2>2, <2>3, <2>4, <2>5 DEF TypeOK, Evaluate
<1>14. ASSUME NEW x \in Draft, Emit(x) PROVE TypeOK'
  <2>1. told' \in [Device -> {"nothing", "down", "up", "again"}]
    BY <1>14 DEF TypeOK, Emit, Say, Word, Draft
  <2> QED BY <1>14, <2>1 DEF TypeOK, Emit
<1>15. CASE EndCycle
  BY <1>15 DEF TypeOK, EndCycle
<1>16. ASSUME NEW d \in Device, Outage(d) PROVE TypeOK'
  BY <1>16 DEF TypeOK, Outage, Disturbance, Event
<1>17. ASSUME NEW d \in Device, NEW w \in Watts, Load(d, w) PROVE TypeOK'
  BY <1>17 DEF TypeOK, Load, Event
<1>18. ASSUME NEW L \in [Metered -> Limits \cup {NoLimit}], SetLimits(L)
       PROVE  TypeOK'
  BY <1>18 DEF TypeOK, SetLimits, Event
<1>19. CASE Restart
  BY <1>19 DEF TypeOK, Restart, Event, StartupScan, Idle, Pass
<1>20. CASE UNCHANGED vars
  BY <1>20 DEF TypeOK, vars
<1> QED BY <1>1, <1>2, <1>3, <1>4, <1>5, <1>6, <1>7, <1>8, <1>9, <1>10,
           <1>11, <1>12, <1>13, <1>14, <1>15, <1>16, <1>17, <1>18, <1>19,
           <1>20 DEF Next, ScanStep, Cycle, Others, World

\* Every variable keeps its type; in particular a streak never exceeds the
\* threshold of is_reachable, and there are no readings out of nowhere.
THEOREM TypeCorrect == Spec => []TypeOK
<1> QED BY TypeInit, TypeNext, PTL DEF Spec

-----------------------------------------------------------------------------
(* One incident, one alert *)

Drafted(t, d) == [type |-> t, dev |-> d] \in pending

\* Drafts are emitted within the cycle that wrote them.
DraftsInCycle == pc # "emit" => pending = {}

\* A draft says what the evaluator last saw and the user was not told last.
DraftsAreNews ==
  \A d \in Device :
    /\ Drafted("unreachable", d) => seen[d] = "down" /\ told[d] # "down"
    /\ Drafted("recovered", d) => seen[d] = "up" /\ told[d] # "up"

\* Without a draft, what the user was told is what the evaluator last saw.
ToldIsSeen ==
  \A d \in Device :
    ~Drafted("unreachable", d) /\ ~Drafted("recovered", d) =>
      /\ told[d] = "down" => seen[d] = "down"
      /\ told[d] = "up" => seen[d] = "up"

NothingAgain == \A d \in Device : told[d] # "again"

IncidentInv == DraftsInCycle /\ DraftsAreNews /\ ToldIsSeen /\ NothingAgain

\* Only the evaluator and a restart touch what it saw and said.
LEMMA OnlyTheCycleSpeaks ==
  ASSUME [Next]_vars
  PROVE  \/ UNCHANGED <<pc, seen, pending, told>>
         \/ BeginCycle \/ Evaluates \/ EndCycle \/ Restart
         \/ \E x \in Draft : Emit(x)
<1> USE DEF worldVars, registryVars, storeVars, taskVars, histVars
<1>1. \A p \in Pass : ScanStep(p) => UNCHANGED <<pc, seen, pending, told>>
  BY DEF ScanStep, Found, ReadFound, Probe, BeginProbes, ScanFails, EndScan
<1>2. Others \/ World \/ Rediscover => UNCHANGED <<pc, seen, pending, told>>
  BY DEF Others, Refresh, Record, Expire, World, Outage, Load, SetLimits,
         Rediscover
<1>3. \A d \in Device, ok \in BOOLEAN :
        OwnRead(d, ok) => UNCHANGED <<pc, seen, pending, told>>
  BY DEF OwnRead
<1> QED BY <1>1, <1>2, <1>3 DEF Next, Cycle, Evaluates, vars

LEMMA IncidentInit == Init => IncidentInv
  BY DEF Init, IncidentInv, DraftsInCycle, DraftsAreNews, ToldIsSeen,
         NothingAgain, Drafted

\* The drafts of a cycle about d, by what was seen of d before.
LEMMA EvaluateDrafts ==
  ASSUME Evaluates, NEW d \in Device
  PROVE  /\ Drafted("unreachable", d)' <=> seen[d] = "up" /\ ~Reachable(d)
         /\ Drafted("recovered", d)' <=> seen[d] = "down" /\ Reachable(d)
         /\ seen'[d] = IF Reachable(d) THEN "up" ELSE "down"
<1>0. PICK L \in {limit, NoLimits} : Evaluate(L)
  BY DEF Evaluates
<1>1. /\ pending' = Reachability \cup PowerDrafts(L)
      /\ seen'[d] = IF Reachable(d) THEN "up" ELSE "down"
  BY <1>0 DEF Evaluate
<1>2. [type |-> "unreachable", dev |-> d] \in Reachability \cup PowerDrafts(L)
        <=> seen[d] = "up" /\ ~Reachable(d)
  BY DEF Reachability, PowerDrafts
<1>3. [type |-> "recovered", dev |-> d] \in Reachability \cup PowerDrafts(L)
        <=> seen[d] = "down" /\ Reachable(d)
  BY DEF Reachability, PowerDrafts
<1> QED BY <1>1, <1>2, <1>3 DEF Drafted

\* What emitting a draft about device e changes.
LEMMA EmitEffect ==
  ASSUME TypeOK, IncidentInv, NEW x \in Draft, Emit(x)
  PROVE  /\ pending' = pending \ {x}
         /\ UNCHANGED <<pc, seen>>
         /\ x.type = "power" => told' = told
         /\ x.type = "unreachable" =>
              told[x.dev] # "down" /\ told' = [told EXCEPT ![x.dev] = "down"]
         /\ x.type = "recovered" =>
              told[x.dev] # "up" /\ told' = [told EXCEPT ![x.dev] = "up"]
<1>1. /\ x \in pending
      /\ pending' = pending \ {x}
      /\ UNCHANGED <<pc, seen>>
      /\ told' = Say(x)
  BY DEF Emit
<1>2. x.dev \in Device /\ x = [type |-> x.type, dev |-> x.dev]
  BY DEF Draft
<1>3. CASE x.type = "power"
  BY <1>1, <1>3 DEF Say
<1>4. CASE x.type = "unreachable"
  <2>1. told[x.dev] # "down"
    BY <1>1, <1>2, <1>4 DEF IncidentInv, DraftsAreNews, Drafted
  <2> QED BY <1>1, <1>4, <2>1 DEF Say, Word
<1>5. CASE x.type = "recovered"
  <2>1. told[x.dev] # "up"
    BY <1>1, <1>2, <1>5 DEF IncidentInv, DraftsAreNews, Drafted
  <2> QED BY <1>1, <1>5, <2>1 DEF Say, Word
<1> QED BY <1>1, <1>3, <1>4, <1>5 DEF Draft

LEMMA IncidentNext ==
  TypeOK /\ IncidentInv /\ [Next]_vars => IncidentInv'
<1> SUFFICES ASSUME TypeOK, IncidentInv, [Next]_vars PROVE IncidentInv'
  OBVIOUS
<1> USE DEF IncidentInv
<1>1. CASE UNCHANGED <<pc, seen, pending, told>>
  BY <1>1 DEF DraftsInCycle, DraftsAreNews, ToldIsSeen, NothingAgain, Drafted
<1>2. CASE BeginCycle
  BY <1>2 DEF BeginCycle, DraftsInCycle, DraftsAreNews, ToldIsSeen,
              NothingAgain, Drafted
<1>3. CASE Evaluates
  <2>1. pending = {} /\ pc' = "emit" /\ told' = told
    BY <1>3 DEF Evaluates, Evaluate, DraftsInCycle
  <2>2. ASSUME NEW d \in Device
        PROVE  /\ told[d] = "down" => seen[d] = "down"
               /\ told[d] = "up" => seen[d] = "up"
               /\ told[d] # "again"
               /\ seen[d] \in {"never", "up", "down"}
    BY <2>1 DEF ToldIsSeen, NothingAgain, Drafted, TypeOK
  <2>3. DraftsInCycle'
    BY <2>1 DEF DraftsInCycle
  <2>4. DraftsAreNews' /\ ToldIsSeen'
    BY <1>3, <2>1, <2>2, EvaluateDrafts DEF DraftsAreNews, ToldIsSeen
  <2>5. NothingAgain'
    BY <2>1 DEF NothingAgain
  <2> QED BY <2>3, <2>4, <2>5
<1>4. CASE EndCycle
  BY <1>4 DEF EndCycle, DraftsInCycle, DraftsAreNews, ToldIsSeen,
              NothingAgain, Drafted
<1>5. CASE Restart
  BY <1>5 DEF Restart, DraftsInCycle, DraftsAreNews, ToldIsSeen,
              NothingAgain, Drafted
<1>6. ASSUME NEW x \in Draft, Emit(x) PROVE IncidentInv'
  <2>1. x.dev \in Device /\ x = [type |-> x.type, dev |-> x.dev]
    BY DEF Draft
  <2>2. x \in pending /\ pc = "emit"
    BY <1>6 DEF Emit
  <2>3. DraftsInCycle'
    BY <2>2, <1>6, EmitEffect DEF DraftsInCycle
  <2>4. ASSUME NEW d \in Device, d # x.dev
        PROVE  /\ told'[d] = told[d]
               /\ Drafted("unreachable", d)' <=> Drafted("unreachable", d)
               /\ Drafted("recovered", d)' <=> Drafted("recovered", d)
    <3>1. told'[d] = told[d]
      BY <1>6, <2>4, EmitEffect DEF TypeOK, Draft
    <3>2. /\ [type |-> "unreachable", dev |-> d] # x
          /\ [type |-> "recovered", dev |-> d] # x
      BY <2>1, <2>4
    <3> QED BY <1>6, <3>1, <3>2, EmitEffect DEF Drafted
  <2>5. CASE x.type = "power"
    <3>1. \A d \in Device :
            /\ told'[d] = told[d]
            /\ Drafted("unreachable", d)' <=> Drafted("unreachable", d)
            /\ Drafted("recovered", d)' <=> Drafted("recovered", d)
      BY <1>6, <2>5, EmitEffect DEF Drafted
    <3> QED BY <1>6, <2>3, <3>1, EmitEffect
            DEF DraftsAreNews, ToldIsSeen, NothingAgain
  <2>6. CASE x.type = "unreachable"
    <3>1. /\ told'[x.dev] = "down"
          /\ seen[x.dev] = "down"
          /\ ~Drafted("unreachable", x.dev)'
          /\ ~Drafted("recovered", x.dev)'
      <4>1. told'[x.dev] = "down"
        BY <1>6, <2>1, <2>6, EmitEffect DEF TypeOK
      <4>2. seen[x.dev] = "down" /\ ~Drafted("recovered", x.dev)
        BY <2>1, <2>2, <2>6 DEF DraftsAreNews, Drafted
      <4> QED BY <1>6, <2>1, <2>6, <4>1, <4>2, EmitEffect DEF Drafted
    <3> QED BY <1>6, <2>1, <2>3, <2>4, <3>1, EmitEffect
            DEF DraftsAreNews, ToldIsSeen, NothingAgain
  <2>7. CASE x.type = "recovered"
    <3>1. /\ told'[x.dev] = "up"
          /\ seen[x.dev] = "up"
          /\ ~Drafted("unreachable", x.dev)'
          /\ ~Drafted("recovered", x.dev)'
      <4>1. told'[x.dev] = "up"
        BY <1>6, <2>1, <2>7, EmitEffect DEF TypeOK
      <4>2. seen[x.dev] = "up" /\ ~Drafted("unreachable", x.dev)
        BY <2>1, <2>2, <2>7 DEF DraftsAreNews, Drafted
      <4> QED BY <1>6, <2>1, <2>7, <4>1, <4>2, EmitEffect DEF Drafted
    <3> QED BY <1>6, <2>1, <2>3, <2>4, <3>1, EmitEffect
            DEF DraftsAreNews, ToldIsSeen, NothingAgain
  <2> QED BY <2>5, <2>6, <2>7 DEF Draft
<1> QED BY <1>1, <1>2, <1>3, <1>4, <1>5, <1>6, OnlyTheCycleSpeaks

THEOREM IncidentInvariant == Spec => [](TypeOK /\ IncidentInv)
<1> QED BY TypeInit, TypeNext, IncidentInit, IncidentNext, PTL DEF Spec

\* Every step of the alerts is a step of the promise, or a stutter.
LEMMA StepRefines ==
  TypeOK /\ IncidentInv /\ [Next]_vars => [Incidents!Next]_told
<1> SUFFICES ASSUME TypeOK, IncidentInv, [Next]_vars
             PROVE  [Incidents!Next]_told
  OBVIOUS
<1> USE DEF Incidents!Next
<1>1. CASE \/ UNCHANGED <<pc, seen, pending, told>>
           \/ BeginCycle \/ Evaluates \/ EndCycle
  BY <1>1 DEF BeginCycle, Evaluates, Evaluate, EndCycle
<1>2. CASE Restart
  BY <1>2 DEF Restart, Incidents!Restart, Incidents!Nothing
<1>3. ASSUME NEW x \in Draft, Emit(x) PROVE [Incidents!Next]_told
  <2>1. x.dev \in Device /\ x.type \in {"unreachable", "recovered", "power"}
    BY DEF Draft
  <2>2. CASE x.type = "power"
    BY <1>3, <2>2, EmitEffect
  <2>3. CASE x.type = "unreachable"
    <3>1. Incidents!Gone(x.dev)
      BY <1>3, <2>3, EmitEffect DEF Incidents!Gone
    <3> QED BY <2>1, <3>1
  <2>4. CASE x.type = "recovered"
    <3>1. Incidents!Back(x.dev)
      BY <1>3, <2>4, EmitEffect DEF Incidents!Back
    <3> QED BY <2>1, <3>1
  <2> QED BY <2>1, <2>2, <2>3, <2>4
<1> QED BY <1>1, <1>2, <1>3, OnlyTheCycleSpeaks

\* alerts.py: "one incident yields one alert, not one per cycle", however the
\* passes, the refreshers and the evaluator interleave.
THEOREM IncidentsHold == Spec => OneIncidentOneAlert
<1>1. Init => Incidents!Init
  BY DEF Init, Incidents!Init, Incidents!Nothing
<1> QED BY <1>1, StepRefines, IncidentInvariant, PTL
        DEF Spec, OneIncidentOneAlert, Incidents!Spec

-----------------------------------------------------------------------------
(* A quiet house *)

\* The startup pass finds what answers, and attaches all of it.
StartupAttaches ==
  LET s == scan["startup"] IN
  /\ scan["manual"] = Idle
  /\ cached \subseteq up
  /\ s.phase = "read" => s.todo \subseteq up /\ up \ s.todo \subseteq cached
  /\ s.phase \in {"probe", "idle"} => up \subseteq cached

\* No cycle runs before the startup pass has ended.
SweepFirst ==
  /\ discovering <=> scan["startup"].phase # "idle"
  /\ discovering => pc = "sleep"

\* The evaluator sees the devices as they are, and says nothing.
SeenAsIs ==
  /\ todo \subseteq up
  /\ \A d \in Device : /\ misses[d] = 0
                       /\ seen[d] = "up" => d \in up
                       /\ seen[d] = "down" => d \notin up
                       /\ told[d] = "nothing"
  /\ \A x \in pending : x.type = "power"

Undisturbed == StartupAttaches /\ SweepFirst /\ SeenAsIs

QuietInv == disturbed = {} => Undisturbed

LEMMA QuietInit == Init => QuietInv
  BY DEF Init, QuietInv, Undisturbed, StartupAttaches, SweepFirst, SeenAsIs,
         StartupScan, Idle, Pass

\* What is calm was calm before.
LEMMA CalmBefore == TypeOK /\ [Next]_vars /\ disturbed' = {} => disturbed = {}
<1> SUFFICES ASSUME [Next]_vars PROVE disturbed \subseteq disturbed'
  OBVIOUS
<1> USE DEF worldVars, registryVars, storeVars, taskVars, histVars, Disturbance
<1>1. \A p \in Pass : ScanStep(p) => disturbed \subseteq disturbed'
  BY DEF ScanStep, Found, ReadFound, Probe, BeginProbes, ScanFails, EndScan,
         Outcome
<1>2. Cycle => disturbed \subseteq disturbed'
  BY DEF Cycle, BeginCycle, Evaluate, EndCycle, OwnRead, Emit, Outcome
<1>3. Others => disturbed \subseteq disturbed'
  BY DEF Others, Refresh, Record, Expire, Outcome
<1>4. World \/ Rediscover \/ Restart => disturbed \subseteq disturbed'
  BY DEF World, Outage, Load, SetLimits, Rediscover, Restart
<1> QED BY <1>1, <1>2, <1>3, <1>4 DEF Next, vars

\* A read in a calm house ends as the device is.
LEMMA CalmRead ==
  ASSUME NEW d \in Device, NEW ok \in BOOLEAN, Outcome(d, ok), disturbed' = {}
  PROVE  ok <=> d \in up
  BY DEF Outcome, Disturbance

\* A read that works starts no streak.
LEMMA GoodRead ==
  ASSUME TypeOK, SeenAsIs, NEW d \in Device, Read(d, TRUE)
  PROVE  \A e \in Device : misses'[e] = 0
  BY DEF TypeOK, SeenAsIs, Read

LEMMA QuietNext == TypeOK /\ QuietInv /\ [Next]_vars => QuietInv'
<1> SUFFICES ASSUME TypeOK, Undisturbed, [Next]_vars,
                    disturbed = {}, disturbed' = {}
             PROVE  Undisturbed'
  BY CalmBefore DEF QuietInv
<1> USE DEF Undisturbed, worldVars, registryVars, storeVars, taskVars, histVars
<1>a. /\ "startup" \in Pass /\ "manual" \in Pass
      /\ \A p \in Pass : p = "startup" \/ p = "manual"
  BY DEF Pass
<1>b. ASSUME NEW p \in Pass, scan[p].phase # "idle" PROVE p = "startup"
  BY <1>a, <1>b DEF StartupAttaches, Idle
<1>1. ASSUME NEW d \in Device, NEW ok \in BOOLEAN, Refresh(d, ok)
      PROVE  Undisturbed'
  <2>1. ok = TRUE
    BY <1>1, CalmRead DEF Refresh, StartupAttaches
  <2>2. \A e \in Device : misses'[e] = 0
    BY <1>1, <2>1, GoodRead DEF Refresh
  <2> QED BY <1>1, <2>2 DEF Refresh, StartupAttaches, SweepFirst, SeenAsIs
<1>2. CASE \E d \in Device : Record(d) \/ Expire(d)
  BY <1>2 DEF Record, Expire, StartupAttaches, SweepFirst, SeenAsIs
<1>3. ASSUME NEW p \in Pass, NEW F \in SUBSET up, Found(p, F)
      PROVE  Undisturbed'
  <2>1. p = "startup" /\ F = up
    BY <1>3, <1>b DEF Found, Disturbance
  <2>2. scan' = [scan EXCEPT !["startup"] = [phase |-> "read", todo |-> up]]
    BY <1>3, <2>1 DEF Found
  <2>3. /\ scan'["startup"] = [phase |-> "read", todo |-> up]
        /\ scan'["manual"] = scan["manual"]
    BY <2>2, <1>a DEF TypeOK
  <2> QED BY <1>3, <2>1, <2>3
          DEF Found, StartupAttaches, SweepFirst, SeenAsIs
<1>4. ASSUME NEW p \in Pass, NEW d \in Device, NEW ok \in BOOLEAN,
             ReadFound(p, d, ok)
      PROVE  Undisturbed'
  <2>1. p = "startup" /\ scan["startup"].phase = "read"
        /\ d \in scan["startup"].todo
    BY <1>4, <1>b DEF ReadFound
  <2>2. ok = TRUE
    BY <1>4, <2>1, CalmRead DEF ReadFound, StartupAttaches
  <2>3. \A e \in Device : misses'[e] = 0
    BY <1>4, <2>2, GoodRead DEF ReadFound
  <2>4. /\ scan'["startup"].phase = "read"
        /\ scan'["startup"].todo = scan["startup"].todo \ {d}
        /\ scan'["manual"] = scan["manual"]
    BY <1>4, <2>1, <1>a DEF ReadFound, TypeOK
  <2>5. cached' = cached \cup {d} /\ UNCHANGED <<up, discovering, taskVars>>
    BY <1>4, <2>2 DEF ReadFound
  <2>6. StartupAttaches'
    BY <2>1, <2>4, <2>5 DEF StartupAttaches
  <2> QED BY <2>1, <2>3, <2>4, <2>5, <2>6 DEF SweepFirst, SeenAsIs
<1>5. ASSUME NEW p \in Pass, BeginProbes(p) PROVE Undisturbed'
  <2>1. p = "startup" /\ scan["startup"] = [phase |-> "read", todo |-> {}]
    BY <1>5, <1>b DEF BeginProbes
  <2>2. /\ scan'["startup"].phase = "probe"
        /\ scan'["manual"] = scan["manual"]
    BY <1>5, <2>1, <1>a DEF BeginProbes, TypeOK
  <2> QED BY <1>5, <2>1, <2>2
          DEF BeginProbes, StartupAttaches, SweepFirst, SeenAsIs
<1>6. ASSUME NEW p \in Pass, NEW d \in Device, NEW ok \in BOOLEAN,
             Probe(p, d, ok)
      PROVE  Undisturbed'
  <2>1. p = "startup" /\ scan["startup"].phase = "probe"
    BY <1>6, <1>b DEF Probe
  <2>2. ok <=> d \in up
    BY <1>6, CalmRead DEF Probe
  <2>3. \A e \in Device : misses'[e] = 0
    <3>1. CASE ok
      BY <1>6, <3>1, GoodRead DEF Probe, SeenAsIs
    <3>2. CASE ~ok
      BY <1>6, <2>2, <3>2 DEF Probe, SeenAsIs
    <3> QED BY <3>1, <3>2
  <2>4. /\ scan'["startup"].phase = "probe"
        /\ scan'["manual"] = scan["manual"]
    BY <1>6, <2>1, <1>a DEF Probe, TypeOK
  <2>5. /\ cached \subseteq cached' /\ cached' \subseteq up
        /\ UNCHANGED <<up, discovering, taskVars>>
    BY <1>6, <2>2 DEF Probe, StartupAttaches
  <2>6. StartupAttaches'
    BY <2>1, <2>4, <2>5 DEF StartupAttaches
  <2> QED BY <2>1, <2>3, <2>4, <2>5, <2>6 DEF SweepFirst, SeenAsIs
<1>7. ASSUME NEW p \in Pass, EndScan(p) PROVE Undisturbed'
  <2>1. p = "startup" /\ scan["startup"].phase = "probe"
    BY <1>7, <1>b DEF EndScan
  <2>2. /\ scan'["startup"].phase = "idle"
        /\ scan'["manual"] = scan["manual"]
        /\ ~discovering'
    BY <1>7, <2>1, <1>a DEF EndScan, TypeOK, Idle
  <2> QED BY <1>7, <2>1, <2>2
          DEF EndScan, StartupAttaches, SweepFirst, SeenAsIs
<1>8. CASE BeginCycle
  BY <1>8 DEF BeginCycle, StartupAttaches, SweepFirst, SeenAsIs
<1>9. ASSUME NEW d \in Device, NEW ok \in BOOLEAN, OwnRead(d, ok)
      PROVE  Undisturbed'
  <2>1. ok = TRUE
    BY <1>9, CalmRead DEF OwnRead, SeenAsIs
  <2>2. \A e \in Device : misses'[e] = 0
    BY <1>9, <2>1, GoodRead DEF OwnRead
  <2> QED BY <1>9, <2>2 DEF OwnRead, StartupAttaches, SweepFirst, SeenAsIs
<1>10. ASSUME NEW L \in {limit, NoLimits}, Evaluate(L) PROVE Undisturbed'
  <2>1. \A d \in Device : Reachable(d) <=> d \in up
    <3>1. up \subseteq cached /\ cached \subseteq up
      BY <1>10 DEF Evaluate, StartupAttaches, SweepFirst
    <3> QED BY <3>1 DEF SeenAsIs, Reachable
  <2>2. Reachability = {}
    BY <2>1 DEF Reachability, SeenAsIs
  <2>3. \A x \in pending' : x.type = "power"
    BY <1>10, <2>2 DEF Evaluate, PowerDrafts
  <2>4. \A d \in Device : seen'[d] = IF d \in up THEN "up" ELSE "down"
    BY <1>10, <2>1 DEF Evaluate
  <2>5. StartupAttaches' /\ SweepFirst'
    BY <1>10 DEF Evaluate, StartupAttaches, SweepFirst
  <2> QED BY <1>10, <2>3, <2>4, <2>5 DEF Evaluate, SeenAsIs
<1>11. ASSUME NEW x \in Draft, Emit(x) PROVE Undisturbed'
  <2>1. told' = told /\ pending' \subseteq pending
    BY <1>11 DEF Emit, SeenAsIs, Say
  <2> QED BY <1>11, <2>1 DEF Emit, StartupAttaches, SweepFirst, SeenAsIs
<1>12. CASE EndCycle
  BY <1>12 DEF EndCycle, StartupAttaches, SweepFirst, SeenAsIs
<1>13. CASE \/ \E d \in Device, w \in Watts : Load(d, w)
            \/ Edits
  BY <1>13 DEF Edits, Load, SetLimits, StartupAttaches, SweepFirst, SeenAsIs
<1>14. CASE Restart
  <2>1. /\ scan'["startup"].phase = "scan"
        /\ scan'["manual"] = Idle
    BY <1>14 DEF Restart, StartupScan, Pass, Idle
  <2> QED BY <1>14, <2>1 DEF Restart, StartupAttaches, SweepFirst, SeenAsIs
<1>15. CASE UNCHANGED vars
  BY <1>15 DEF vars, StartupAttaches, SweepFirst, SeenAsIs
<1>16. CASE \/ Rediscover \/ \E p \in Pass : ScanFails(p)
            \/ \E d \in Device : Outage(d)
  BY <1>16 DEF Rediscover, ScanFails, Outage, Disturbance
<1> QED BY <1>1, <1>2, <1>3, <1>4, <1>5, <1>6, <1>7, <1>8, <1>9, <1>10,
           <1>11, <1>12, <1>13, <1>14, <1>15, <1>16
        DEF Next, ScanStep, Cycle, Others, World, Edits

\* No alert about reachability without an incident: the startup sweep never
\* races the evaluator into one, in any process.
THEOREM QuietHolds == Spec => []QuietHouseQuiet
<1>1. QuietInv => QuietHouseQuiet
  BY DEF QuietInv, QuietHouseQuiet, Undisturbed, SeenAsIs
<1> QED BY <1>1, TypeInit, TypeNext, QuietInit, QuietNext, PTL DEF Spec

-----------------------------------------------------------------------------
(* One power alert per incident *)

\* While nothing went below the threshold, the incident is remembered and any
\* row there is lies above the threshold.
PowerInv ==
  \A d \in Device \ lowered :
    /\ over[d]
    /\ limit[d] # NoLimit
    /\ row[d] # Unknown => row[d] > limit[d]

LEMMA PowerInit == Init => PowerInv
  BY DEF Init, PowerInv

\* Only these steps touch what the power alert looks at.
LEMMA OnlyThesePower ==
  ASSUME [Next]_vars
  PROVE  \/ UNCHANGED <<row, limit, over, lowered>>
         \/ Evaluates \/ Edits \/ Restart
         \/ \E d \in Device : Record(d)
<1> USE DEF worldVars, registryVars, storeVars, taskVars, histVars
<1>1. \A p \in Pass : ScanStep(p) => UNCHANGED <<row, limit, over, lowered>>
  BY DEF ScanStep, Found, ReadFound, Probe, BeginProbes, ScanFails, EndScan
<1>2. /\ \A d \in Device, ok \in BOOLEAN :
           Refresh(d, ok) \/ OwnRead(d, ok) =>
             UNCHANGED <<row, limit, over, lowered>>
      /\ \A d \in Device : Expire(d) \/ Outage(d) =>
                             UNCHANGED <<row, limit, over, lowered>>
      /\ \A d \in Device, w \in Watts :
           Load(d, w) => UNCHANGED <<row, limit, over, lowered>>
  BY DEF Refresh, OwnRead, Expire, Outage, Load
<1>3. BeginCycle \/ EndCycle \/ Rediscover \/ (\E x \in Draft : Emit(x))
        => UNCHANGED <<row, limit, over, lowered>>
  BY DEF BeginCycle, EndCycle, Rediscover, Emit
<1> QED BY <1>1, <1>2, <1>3
        DEF Next, Cycle, Others, World, Evaluates, Edits, vars

LEMMA PowerNext == TypeOK /\ PowerInv /\ [Next]_vars => PowerInv'
<1> SUFFICES ASSUME TypeOK, PowerInv, [Next]_vars,
                    NEW d \in Device, d \notin lowered'
             PROVE  /\ over'[d]
                    /\ limit'[d] # NoLimit
                    /\ row'[d] # Unknown => row'[d] > limit'[d]
  BY DEF PowerInv
<1> USE DEF worldVars, registryVars, storeVars, taskVars, histVars
<1>1. CASE UNCHANGED <<row, limit, over, lowered>>
  BY <1>1 DEF PowerInv
<1>2. CASE Evaluates
  <2>a. PICK L \in {limit, NoLimits} : Evaluate(L)
    BY <1>2 DEF Evaluates
  <2>1. L = limit /\ UNCHANGED <<row, limit>>
    BY <2>a DEF Evaluate
  <2>2. CASE [type |-> "power", dev |-> d] \in PowerDrafts(limit)
    <3>1. Exceeds(Power(d), limit[d])
      BY <2>2 DEF PowerDrafts
    <3>2. over'[d]
      BY <2>a, <2>1, <3>1 DEF Evaluate, OverAfter, Exceeds
    <3> QED BY <2>1, <3>1, <3>2 DEF Exceeds, Power
  <2>3. CASE [type |-> "power", dev |-> d] \notin PowerDrafts(limit)
    <3>1. d \notin lowered
      BY <2>a, <2>1, <2>3 DEF Evaluate, PowerDrafts
    <3>2. /\ over[d] /\ limit[d] # NoLimit
          /\ row[d] # Unknown => row[d] > limit[d]
      BY <3>1 DEF PowerInv
    <3>3. over'[d]
      BY <2>a, <2>1, <3>2 DEF Evaluate, OverAfter, Exceeds, Power
    <3> QED BY <2>1, <3>2, <3>3
  <2> QED BY <2>2, <2>3
<1>3. CASE Restart
  BY <1>3 DEF Restart
<1>4. ASSUME NEW e \in Device, Record(e)
      PROVE  /\ over'[d]
             /\ limit'[d] # NoLimit
             /\ row'[d] # Unknown => row'[d] > limit'[d]
  <2>1. d \notin lowered /\ UNCHANGED <<limit, over>>
    BY <1>4 DEF Record
  <2>2. CASE d = e
    <3>1. row'[d] = meter[d] /\ Exceeds(meter[d], limit[d])
      BY <1>4, <2>2 DEF Record, TypeOK
    <3> QED BY <2>1, <3>1 DEF PowerInv, Exceeds
  <2>3. CASE d # e
    <3>1. row'[d] = row[d]
      BY <1>4, <2>3 DEF Record, TypeOK
    <3> QED BY <2>1, <3>1 DEF PowerInv
  <2> QED BY <2>2, <2>3
<1>5. CASE Edits
  <2>1. d \notin lowered /\ limit'[d] = limit[d] /\ UNCHANGED <<row, over>>
    BY <1>5 DEF Edits, SetLimits
  <2> QED BY <2>1 DEF PowerInv
<1> QED BY <1>1, <1>2, <1>3, <1>4, <1>5, OnlyThesePower

\* A second power alert takes a row at or below the threshold, an edit of it or
\* a cycle that could not read it since the first one: a gap in the rows does
\* not end an incident, nor does the edit of another device's threshold.
THEOREM PowerOnceHolds == Spec => PowerOncePerIncident
<1>1. PowerInv =>
        [\A d \in Device, L \in {limit, NoLimits} :
           Evaluate(L) /\ [type |-> "power", dev |-> d] \in PowerDrafts(L)
             => d \in lowered]_vars
  BY DEF PowerInv, PowerDrafts
<1> QED BY <1>1, TypeInit, TypeNext, PowerInit, PowerNext, PTL
        DEF Spec, PowerOncePerIncident

=============================================================================
