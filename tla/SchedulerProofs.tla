--------------------------- MODULE SchedulerProofs ---------------------------
(***************************************************************************)
(* Proofs about Scheduler, for every horizon, labelling, set of triggers,  *)
(* number of rules and number of faults.                                   *)
(***************************************************************************)
EXTENDS Scheduler, FiniteSetTheorems, TLAPS

USE BoundsAssumption DEF NoMinute

-----------------------------------------------------------------------------
(* Types *)

LEMMA NoRuleType == NoRule \in Rule
  BY DEF NoRule, Rule, Kinds

\* What update_rule writes after a firing leaves the trigger alone.
LEMMA AfterFireSays ==
  ASSUME NEW q \in Rule, NEW o
  PROVE  /\ AfterFire(q, o).kind = q.kind /\ AfterFire(q, o).due = q.due
         /\ AfterFire(q, o).firedAt = minute
         /\ AfterFire(q, o).result = "ran"
         /\ AfterFire(q, o).enabled = (q.enabled /\ ~o)
  BY DEF AfterFire, Rule

LEMMA FileAccessType ==
  ASSUME ioFaults \in Nat, NEW ok, FileAccess(ok)
  PROVE  ioFaults' \in Nat
  BY DEF FileAccess

\* The two steps of the task that use the file, whatever happens to it.
Begins == \E lost \in SUBSET RuleIds : BeginTick(lost)

Finishes(e) == \E saved \in BOOLEAN : FinishFire(e, saved)

\* minutes_to_evaluate never names a minute the cursor covers.
LEMMA FirstMinuteType ==
  ASSUME NEW c \in Minute \cup {NoMinute}, NEW t \in Minute
  PROVE  /\ FirstMinute(c, t) \in NoMinute .. Horizon + 1
         /\ FirstMinute(c, t) <= t => c < FirstMinute(c, t)
  BY DEF FirstMinute, Minute

\* The minute being evaluated lies within the cycle, and the cursor is behind
\* it: what keeps `minute' in range and each minute from coming up twice.
Ticking ==
  /\ pc = "scan" => current \in Minute
  /\ pc = "scan" /\ minute <= current => last < minute
  /\ pc \in {"run", "fire"} => /\ current \in Minute
                              /\ last < minute
                              /\ minute <= current
  /\ pc \in {"sleep", "scan"} => due = {}

TypeInv == TypeOK /\ Ticking

LEMMA TypeInit == Init => TypeInv
<1> SUFFICES ASSUME Init PROVE TypeInv
  OBVIOUS
<1> USE DEF Init
<1>1. ClockType
  BY DEF ClockType, Minute
<1>2. StoreType
  BY NoRuleType DEF StoreType
<1>3. TaskType
  BY DEF TaskType
<1>4. HistType
  BY DEF HistType
<1>5. Ticking
  BY DEF Ticking
<1> QED BY ONLY <1>1, <1>2, <1>3, <1>4, <1>5 DEF TypeInv, TypeOK

LEMMA TypeNext == TypeInv /\ [Next]_vars => TypeInv'
<1> SUFFICES ASSUME ClockType, StoreType, TaskType, HistType, Ticking,
                    [Next]_vars
             PROVE  /\ ClockType' /\ StoreType' /\ TaskType' /\ HistType'
                    /\ Ticking'
  BY DEF TypeInv, TypeOK
<1> USE DEF clockVars, storeVars, taskVars, histVars
<1>1. CASE Wake
  <2>1. /\ FirstMinute(last, now) \in NoMinute .. Horizon + 1
        /\ FirstMinute(last, now) <= now => last < FirstMinute(last, now)
    BY FirstMinuteType DEF TaskType, ClockType
  <2>2. ClockType' /\ StoreType'
    BY <1>1 DEF Wake, ClockType, StoreType
  <2>3. TaskType'
    BY <1>1, <2>1 DEF Wake, TaskType, ClockType
  <2>4. gapSeen' \in BOOLEAN
    BY <1>1, Zenon DEF Wake, HistType
  <2>5. HistType'
    BY <1>1, <2>4 DEF Wake, HistType
  <2>6. Ticking'
    BY <1>1, <2>1 DEF Wake, Ticking, ClockType
  <2> QED BY <2>2, <2>3, <2>5, <2>6
<1>2. ASSUME NEW lost \in SUBSET RuleIds, BeginTick(lost)
      PROVE  ClockType' /\ StoreType' /\ TaskType' /\ HistType' /\ Ticking'
  <2>0. pc = "scan" /\ minute <= current
    BY <1>2 DEF BeginTick
  <2>1. minute \in Minute /\ last < minute /\ current \in Minute
    BY <2>0 DEF TaskType, Ticking, Minute
  <2>2. \A i \in RuleIds :
          [rules[i] EXCEPT !.enabled = FALSE, !.firedAt = minute,
                           !.result  = "missed"] \in Rule
    BY <2>1 DEF StoreType, Rule
  <2>3. StoreType'
    <3>1. ioFaults' \in Nat
      BY <1>2, FileAccessType DEF BeginTick, StoreType
    <3>2. rules' \in [RuleIds -> Rule] /\ nextId' \in 1 .. MaxRules + 1
      BY <1>2, <2>2 DEF BeginTick, StoreType
    <3> QED BY <3>1, <3>2 DEF StoreType
  <2>4. \A i \in RuleIds : [id |-> i, once |-> rules[i].kind = "once"]
                             \in [id : RuleIds, once : BOOLEAN]
    BY Zenon
  <2>5. due' \subseteq [id : RuleIds, once : BOOLEAN]
    BY <1>2, <2>4, Zenon DEF BeginTick, DueRules
  <2>6. TaskType'
    BY <1>2, <2>5 DEF BeginTick, TaskType
  <2>7. ClockType' /\ HistType'
    BY <1>2 DEF BeginTick, ClockType, HistType
  <2>8. Ticking'
    BY <1>2, <2>1 DEF BeginTick, Ticking
  <2> QED BY <2>3, <2>6, <2>7, <2>8
<1>2a. CASE BeginTickBlind
  <2>1. ioFaults' \in Nat
    BY <1>2a, FileAccessType DEF BeginTickBlind, StoreType
  <2>2. ClockType' /\ StoreType' /\ TaskType'
    BY <1>2a, <2>1 DEF BeginTickBlind, ClockType, StoreType, TaskType
  <2>3. unread' \subseteq RuleIds
    BY <1>2a DEF BeginTickBlind, DueRules, HistType
  <2>4. HistType'
    BY <1>2a, <2>3 DEF BeginTickBlind, HistType
  <2>5. Ticking'
    BY <1>2a DEF BeginTickBlind, TaskType, Ticking, Minute
  <2> QED BY <2>2, <2>4, <2>5
<1>3. ASSUME NEW e \in due, StartFire(e)
      PROVE  ClockType' /\ StoreType' /\ TaskType' /\ HistType' /\ Ticking'
  <2>1. ClockType' /\ StoreType' /\ HistType'
    BY <1>3 DEF StartFire, ClockType, StoreType, HistType
  <2>2. TaskType' /\ Ticking'
    BY <1>3 DEF StartFire, TaskType, Ticking
  <2> QED BY <2>1, <2>2
<1>4. ASSUME NEW e \in due, NEW saved \in BOOLEAN, FinishFire(e, saved)
      PROVE  ClockType' /\ StoreType' /\ TaskType' /\ HistType' /\ Ticking'
  <2>1. /\ minute \in Minute
        /\ e.id \in RuleIds
    BY <1>4 DEF FinishFire, TaskType, Ticking, Minute
  <2>2. \A r \in Rule : AfterFire(r, e.once) \in Rule
    <3> SUFFICES ASSUME NEW r \in Rule PROVE AfterFire(r, e.once) \in Rule
      OBVIOUS
    <3>1. (r.enabled /\ ~e.once) \in BOOLEAN
      BY Zenon
    <3> DEFINE b == r.enabled /\ ~e.once
    <3>2. AfterFire(r, e.once) =
            [r EXCEPT !.firedAt = minute, !.result = "ran", !.enabled = b]
      BY Zenon DEF AfterFire
    <3> HIDE DEF b
    <3>3. b \in BOOLEAN
      BY <3>1 DEF b
    <3> QED BY <2>1, <3>2, <3>3 DEF Rule
  <2>3. StoreType'
    <3>1. ioFaults' \in Nat
      BY <1>4, FileAccessType DEF FinishFire, StoreType
    <3>2. rules' \in [RuleIds -> Rule] /\ nextId' \in 1 .. MaxRules + 1
      BY <1>4, <2>1, <2>2 DEF FinishFire, StoreType
    <3> QED BY <3>1, <3>2 DEF StoreType
  <2>4. TaskType' /\ Ticking'
    BY <1>4 DEF FinishFire, TaskType, Ticking
  <2>5. HistType'
    <3>1. fired' \in [RuleIds -> SUBSET (Nat \X Minute)]
      BY <1>4, <2>1 DEF FinishFire, HistType, TaskType
    <3>2. unsaved' \subseteq RuleIds
      BY <1>4, <2>1 DEF FinishFire, HistType
    <3> QED BY <1>4, <3>1, <3>2 DEF FinishFire, HistType
  <2>6. ClockType'
    BY <1>4 DEF FinishFire, ClockType
  <2> QED BY <2>3, <2>4, <2>5, <2>6
<1>5. CASE EndTick
  <2>1. ClockType' /\ StoreType' /\ HistType'
    BY <1>5 DEF EndTick, ClockType, StoreType, HistType
  <2>2. TaskType' /\ Ticking'
    BY <1>5 DEF EndTick, TaskType, Ticking, Minute
  <2> QED BY <2>1, <2>2
<1>6. CASE EndCycle
  <2>1. ClockType' /\ StoreType' /\ HistType'
    BY <1>6 DEF EndCycle, ClockType, StoreType, HistType
  <2>2. last' \in Minute \cup {NoMinute}
    <3>1. last' = current \/ last' = last
      BY <1>6 DEF EndCycle
    <3> QED BY <3>1 DEF TaskType
  <2>3. /\ pc' = "sleep" /\ rested' = FALSE
        /\ current' = NoMinute /\ minute' = NoMinute
    BY <1>6 DEF EndCycle
  <2>4. /\ due' \subseteq [id : RuleIds, once : BOOLEAN]
        /\ runNo' \in Nat
    BY <1>6 DEF EndCycle, TaskType
  <2>5. /\ pc' \in {"sleep", "scan", "run", "fire"} /\ rested' \in BOOLEAN
        /\ current' \in Minute \cup {NoMinute}
    BY ONLY <2>3
  <2>6. minute' \in NoMinute .. Horizon + 1
    BY ONLY <2>3, BoundsAssumption DEF NoMinute
  <2>7. TaskType'
    BY ONLY <2>2, <2>4, <2>5, <2>6 DEF TaskType
  <2>8. Ticking'
    BY <1>6 DEF EndCycle, Ticking
  <2> QED BY <2>1, <2>7, <2>8
<1>7. CASE Restart
  <2>1. ClockType' /\ StoreType' /\ HistType'
    BY <1>7 DEF Restart, ClockType, StoreType, HistType
  <2>2. TaskType'
    BY <1>7 DEF Restart, TaskType
  <2>3. Ticking'
    BY <1>7 DEF Restart, Ticking
  <2> QED BY <2>1, <2>2, <2>3
<1>8. ASSUME NEW t \in Triggers, NEW on \in BOOLEAN,
             NEW readable \in BOOLEAN, CreateRule(t, on, readable)
      PROVE  ClockType' /\ StoreType' /\ TaskType' /\ HistType' /\ Ticking'
  <2>1. [kind |-> t.kind, due |-> t.due, enabled |-> on,
         firedAt |-> NoMinute, result |-> "none"] \in Rule
    BY TriggersAssumption DEF Trigger, Rule
  <2>2. StoreType'
    <3>1. ioFaults' \in Nat
      BY <1>8, FileAccessType DEF CreateRule, StoreType
    <3>2. rules' \in [RuleIds -> Rule]
      BY <1>8, <2>1, NoRuleType DEF CreateRule, StoreType
    <3>3. nextId' \in 1 .. MaxRules + 1
      BY <1>8 DEF CreateRule, StoreType, RuleIds
    <3> QED BY <3>1, <3>2, <3>3 DEF StoreType
  <2>3. ClockType' /\ TaskType' /\ Ticking'
    BY <1>8 DEF CreateRule, ClockType, TaskType, Ticking
  <2>4. HistType'
    BY <1>8 DEF CreateRule, HistType
  <2> QED BY <2>2, <2>3, <2>4
<1>9. ASSUME NEW i \in RuleIds, Touched(i),
             rules' \in [RuleIds -> Rule]
      PROVE  ClockType' /\ StoreType' /\ TaskType' /\ HistType' /\ Ticking'
  BY <1>9 DEF Touched, ClockType, StoreType, TaskType, HistType, Ticking
<1>10. ASSUME NEW i \in RuleIds, ToggleRule(i) \/ DeleteRule(i)
       PROVE  Touched(i) /\ rules' \in [RuleIds -> Rule]
  <2>1. \A r \in Rule : [r EXCEPT !.enabled = ~@] \in Rule
    BY DEF Rule
  <2> QED BY <1>10, <2>1, NoRuleType DEF ToggleRule, DeleteRule, StoreType
<1>11. ASSUME NEW i \in RuleIds, NEW t \in Triggers, NEW on \in BOOLEAN,
              EditRule(i, t, on)
       PROVE  Touched(i) /\ rules' \in [RuleIds -> Rule]
  BY <1>11, TriggersAssumption DEF EditRule, StoreType, Trigger, Rule
<1>12. CASE Tick
  <2>1. ClockType' /\ StoreType' /\ HistType'
    BY <1>12 DEF Tick, ClockType, StoreType, HistType, Minute
  <2>2. rested' \in BOOLEAN
    BY <1>12, Zenon DEF Tick, TaskType
  <2>3. TaskType' /\ Ticking'
    BY <1>12, <2>2 DEF Tick, TaskType, Ticking
  <2> QED BY <2>1, <2>3
<1>13. ASSUME NEW t \in Minute, StepBack(t)
       PROVE  ClockType' /\ StoreType' /\ TaskType' /\ HistType' /\ Ticking'
  BY <1>13 DEF StepBack, ClockType, StoreType, TaskType, HistType, Ticking
<1>14. CASE UNCHANGED vars
  BY <1>14 DEF vars, ClockType, StoreType, TaskType, HistType, Ticking
<1> QED
  BY <1>1, <1>2, <1>2a, <1>3, <1>4, <1>5, <1>6, <1>7, <1>8, <1>9, <1>10,
     <1>11, <1>12, <1>13, <1>14 DEF Next, Task, Routes, Clock

THEOREM TypeInvariant == Spec => []TypeInv
  BY TypeInit, TypeNext, PTL DEF Spec

\* Every variable keeps its type.
THEOREM TypeCorrect == Spec => []TypeOK
<1>1. TypeInv => TypeOK
  BY DEF TypeInv
<1> QED BY <1>1, TypeInvariant, PTL

-----------------------------------------------------------------------------
(* No minute is fired twice by one run of the process *)

\* What this run has fired lies behind the cursor or, while a cycle is under
\* way, behind what is left of the minute being evaluated.
FiredBehind ==
  /\ \A i \in RuleIds, n \in Nat, m \in Minute :
       <<n, m>> \in fired[i] => n <= runNo
  /\ \A i \in RuleIds, m \in Minute :
       <<runNo, m>> \in fired[i] =>
         /\ pc = "sleep" => m <= last
         /\ pc = "scan" => /\ m <= last \/ m <= current
                           /\ minute <= current => m < minute
         /\ pc \in {"run", "fire"} => m <= minute
  /\ \A e \in due : <<runNo, minute>> \notin fired[e.id]
  /\ \A e, f \in due : e.id = f.id => e = f

LEMMA FiredInit == Init => FiredBehind
  BY DEF Init, FiredBehind

LEMMA FiredNext == TypeInv /\ FiredBehind /\ [Next]_vars => FiredBehind'
<1> SUFFICES ASSUME TypeInv, FiredBehind, [Next]_vars PROVE FiredBehind'
  OBVIOUS
<1> USE DEF clockVars, storeVars, taskVars, histVars
<1>1. CASE Wake
  <2>1. FirstMinute(last, now) <= now => last < FirstMinute(last, now)
    BY FirstMinuteType DEF TypeInv, TypeOK, TaskType, ClockType
  <2>2. /\ pc = "sleep" /\ pc' = "scan" /\ current' = now
        /\ minute' = FirstMinute(last, now) /\ due = {} /\ due' = {}
        /\ UNCHANGED <<runNo, fired, last>>
    BY <1>1 DEF Wake, TypeInv, Ticking
  <2>3. minute' \in Int /\ current' \in Int /\ last \in Int
    BY <2>2, FirstMinuteType DEF TypeInv, TypeOK, TaskType, ClockType, Minute
  <2> QED BY <2>1, <2>2, <2>3 DEF FiredBehind, Minute
<1>2. ASSUME NEW lost \in SUBSET RuleIds, BeginTick(lost)
      PROVE  FiredBehind'
  <2>1. /\ pc = "scan" /\ minute <= current /\ pc' = "run"
        /\ due' = DueRules(minute)
        /\ UNCHANGED <<runNo, fired, last, current, minute>>
    BY <1>2 DEF BeginTick
  <2>2. /\ \A e \in DueRules(minute) : e.id \in RuleIds
        /\ \A e, f \in DueRules(minute) : e.id = f.id => e = f
    BY DEF DueRules
  <2>3. minute \in Minute
    BY <2>1 DEF TypeInv, TypeOK, TaskType, Ticking, Minute
  <2> QED BY <2>1, <2>2, <2>3 DEF FiredBehind, Minute
<1>2a. CASE BeginTickBlind
  <2>1. /\ pc = "scan" /\ minute <= current /\ pc' = "run"
        /\ UNCHANGED <<runNo, fired, last, current, minute, due>>
    BY <1>2a DEF BeginTickBlind
  <2>2. minute \in Minute
    BY <2>1 DEF TypeInv, TypeOK, TaskType, Ticking, Minute
  <2> QED BY <2>1, <2>2 DEF FiredBehind, Minute
<1>3. ASSUME NEW e \in due, StartFire(e) PROVE FiredBehind'
  BY <1>3 DEF StartFire, FiredBehind
<1>4. ASSUME NEW e \in due, NEW saved \in BOOLEAN, FinishFire(e, saved)
      PROVE  FiredBehind'
  <2>1. /\ pc = "fire" /\ pc' = "run" /\ due' = due \ {e}
        /\ fired' = [fired EXCEPT ![e.id] = @ \cup {<<runNo, minute>>}]
        /\ UNCHANGED <<runNo, minute, last, current>>
    BY <1>4 DEF FinishFire
  <2>2. /\ minute \in Minute /\ runNo \in Nat
        /\ \A f \in due : f.id \in RuleIds
        /\ fired \in [RuleIds -> SUBSET (Nat \X Minute)]
    BY <2>1 DEF TypeInv, TypeOK, TaskType, HistType, Ticking, Minute
  <2>3. \A i \in RuleIds, p \in Nat \X Minute :
          p \in fired'[i] => \/ p \in fired[i]
                             \/ i = e.id /\ p = <<runNo, minute>>
    BY <2>1, <2>2
  <2>4. \A f \in due' : <<runNo, minute>> \notin fired'[f.id]
    BY <2>1, <2>2, <2>3 DEF FiredBehind
  <2> QED BY <2>1, <2>2, <2>3, <2>4 DEF FiredBehind, Minute
<1>5. CASE EndTick
  <2>1. /\ pc = "run" /\ pc' = "scan" /\ minute' = minute + 1
        /\ due = {} /\ due' = {}
        /\ UNCHANGED <<runNo, fired, last, current>>
    BY <1>5 DEF EndTick
  <2>2. minute \in Int /\ current \in Int /\ minute <= current
    BY <2>1 DEF TypeInv, TypeOK, TaskType, Ticking, Minute
  <2> QED BY <2>1, <2>2 DEF FiredBehind, Minute
<1>6. CASE EndCycle
  <2>1. /\ pc = "scan" /\ pc' = "sleep"
        /\ last' = IF last = NoMinute \/ current > last THEN current ELSE last
        /\ due = {} /\ due' = {}
        /\ UNCHANGED <<runNo, fired>>
    BY <1>6 DEF EndCycle, TypeInv, Ticking
  <2>2. last \in Int /\ current \in Int
    BY DEF TypeInv, TypeOK, TaskType, Minute
  <2>3. current <= last' /\ (last \in Minute => last <= last')
    BY <2>1, <2>2 DEF Minute
  <2>4. last \notin Minute => last = NoMinute
    BY DEF TypeInv, TypeOK, TaskType
  <2>5. \A m \in Minute : m <= last \/ m <= current => m <= last'
    BY <2>1, <2>2, <2>3, <2>4 DEF Minute
  <2> QED BY <2>1, <2>5 DEF FiredBehind
<1>7. CASE Restart
  <2>1. /\ pc' = "sleep" /\ due' = {} /\ runNo' = runNo + 1
        /\ runNo \in Nat /\ UNCHANGED fired
    BY <1>7 DEF Restart, TypeInv, TypeOK, TaskType
  <2>2. \A i \in RuleIds, m \in Minute : <<runNo', m>> \notin fired[i]
    BY <2>1 DEF FiredBehind
  <2> QED BY <2>1, <2>2 DEF FiredBehind
<1>8. CASE Routes
  <2>1. UNCHANGED <<taskVars, fired>>
    BY <1>8 DEF Routes, CreateRule, ToggleRule, DeleteRule, EditRule, Touched
  <2> QED BY <2>1 DEF FiredBehind
<1>9. CASE Clock
  <2>1. UNCHANGED <<pc, last, current, minute, due, runNo, fired>>
    BY <1>9 DEF Clock, Tick, StepBack
  <2> QED BY <2>1 DEF FiredBehind
<1>10. CASE UNCHANGED vars
  BY <1>10 DEF vars, FiredBehind
<1> QED
  BY <1>1, <1>2, <1>2a, <1>3, <1>4, <1>5, <1>6, <1>7, <1>8, <1>9, <1>10
     DEF Next, Task

\* scheduler.py's "nor double-fired (the cursor only moves forward)", for one
\* run of the process: no client edit and no correction of the clock makes it
\* fire a rule twice for the same minute.
THEOREM NoRefireHolds == Spec => NoRefire
<1>1. FiredBehind =>
        [\A i \in RuleIds : Starts(i) => <<runNo, minute>> \notin fired[i]]_vars
  BY DEF FiredBehind, Starts
<1> QED
  BY <1>1, FiredInit, FiredNext, TypeInvariant, PTL DEF Spec, NoRefire

-----------------------------------------------------------------------------
(* A one-shot has one outcome *)

OneShot(i) == i \notin edited \cup unsaved /\ rules[i].kind = "once"

\* An armed one-shot has no outcome yet, and neither has one that waits to be
\* fired in this tick: its snapshot still knows it as a one-shot, so firing it
\* disables it.
FreshIds ==
  /\ \A i \in RuleIds : i >= nextId => fired[i] = {} /\ rules[i] = NoRule
  /\ \A e \in due : e.id < nextId

OneTarget ==
  \A i \in RuleIds : rules[i].kind = "once" =>
    \E l \in rules[i].due : rules[i].due = {l}

Settled ==
  \A i \in RuleIds : OneShot(i) =>
    /\ rules[i].enabled => fired[i] = {} /\ rules[i].result # "missed"
    /\ rules[i].result = "missed" => fired[i] = {}
    /\ fired[i] = {} \/ \E f : fired[i] = {f}

Waiting ==
  \A e \in due : OneShot(e.id) =>
    e.once /\ fired[e.id] = {} /\ rules[e.id].result # "missed"

OutcomeInv == FreshIds /\ OneTarget /\ Settled /\ Waiting

OutcomeState == TypeInv /\ FiredBehind /\ OutcomeInv

LEMMA OutcomeInit == Init => OutcomeInv
  BY DEF Init, OutcomeInv, FreshIds, OneTarget, Settled, Waiting, OneShot,
     NoRule

\* A rule due in this minute is not among those that missed theirs.
LEMMA DueIsNotMissed ==
  ASSUME OutcomeInv, NEW m \in Minute, NEW e \in DueRules(m)
  PROVE  /\ e.id \in RuleIds /\ rules[e.id].enabled
         /\ e.once <=> rules[e.id].kind = "once"
         /\ e.id \notin MissedOnce(m)
<1>1. PICK j \in RuleIds : /\ RuleDueAt(rules[j], m)
                          /\ e = [id |-> j, once |-> rules[j].kind = "once"]
  BY DEF DueRules
<1>2. e.id = j /\ (e.once <=> rules[j].kind = "once")
  BY <1>1
<1>3. rules[j].enabled
  BY <1>1 DEF RuleDueAt
<1>4. ASSUME rules[j].kind = "once" PROVE OnceTarget(rules[j]) = Label[m]
  <2>1. PICK l : rules[j].due = {l}
    BY <1>4 DEF OutcomeInv, FreshIds, OneTarget, Settled, Waiting
  <2>2. Label[m] \in rules[j].due
    BY <1>1, <1>4 DEF RuleDueAt, Names
  <2> QED BY <2>1, <2>2 DEF OnceTarget
<1>5. Label[m] \in Nat
  BY LabelAssumption
<1>6. j \notin MissedOnce(m)
  BY <1>4, <1>5 DEF MissedOnce
<1> QED BY <1>2, <1>3, <1>6

LEMMA OutcomeNext == OutcomeState /\ [Next]_vars => OutcomeInv'
<1> SUFFICES ASSUME OutcomeState, [Next]_vars PROVE OutcomeInv'
  OBVIOUS
<1> USE DEF OutcomeState, clockVars, storeVars, taskVars, histVars
<1>0. /\ rules \in [RuleIds -> Rule] /\ nextId \in 1 .. MaxRules + 1
      /\ fired \in [RuleIds -> SUBSET (Nat \X Minute)]
      /\ \A e \in due : e.id \in RuleIds
  BY DEF TypeInv, TypeOK, StoreType, HistType, TaskType
<1>1. CASE Wake
  <2>1. UNCHANGED <<rules, nextId, fired, edited, unsaved, due>>
    BY <1>1 DEF Wake
  <2> QED BY <2>1 DEF OutcomeInv, FreshIds, OneTarget, Settled, Waiting,
     OneShot
<1>2. ASSUME NEW lost \in SUBSET RuleIds, BeginTick(lost)
      PROVE  OutcomeInv'
  <2>1. /\ pc = "scan" /\ minute <= current /\ due' = DueRules(minute)
        /\ UNCHANGED <<nextId, fired, edited, unsaved>>
    BY <1>2 DEF BeginTick
  <2>2. minute \in Minute
    BY <2>1 DEF TypeInv, TypeOK, TaskType, Ticking, Minute
  <2>3. ASSUME NEW i \in RuleIds, i \in MissedOnce(minute) \ lost
        PROVE  /\ rules[i].enabled /\ rules[i].kind = "once"
               /\ rules'[i] = [rules[i] EXCEPT !.enabled = FALSE,
                                  !.firedAt = minute, !.result = "missed"]
               /\ rules'[i].kind = "once" /\ rules'[i].due = rules[i].due
               /\ ~rules'[i].enabled
    BY <1>2, <2>3, <1>0 DEF BeginTick, MissedOnce, Rule
  <2>4. ASSUME NEW i \in RuleIds, i \notin MissedOnce(minute) \ lost
        PROVE  rules'[i] = rules[i]
    BY <1>2, <2>4 DEF BeginTick
  <2>5. \A i \in RuleIds : i >= nextId => rules'[i] = NoRule
    <3>1. NoRule.enabled = FALSE
      BY DEF NoRule
    <3>2. \A i \in RuleIds : i >= nextId => rules[i] = NoRule
      BY DEF OutcomeInv, FreshIds
    <3>3. \A i \in RuleIds : i >= nextId => i \notin MissedOnce(minute) \ lost
      BY <2>3, <3>1, <3>2
    <3> QED BY <2>4, <3>2, <3>3
  <2>6. \A i \in RuleIds : rules'[i].kind = rules[i].kind
                          /\ rules'[i].due = rules[i].due
    BY <2>3, <2>4
  <2>7. \A i \in RuleIds : OneShot(i)' =>
          /\ rules'[i].enabled => fired[i] = {} /\ rules'[i].result # "missed"
          /\ rules'[i].result = "missed" => fired[i] = {}
          /\ fired[i] = {} \/ \E f : fired[i] = {f}
    BY <2>1, <2>3, <2>4, <2>6 DEF OutcomeInv, FreshIds, OneTarget, Settled,
       Waiting, OneShot
  <2>8. ASSUME NEW e \in DueRules(minute)
        PROVE  /\ e.id \in RuleIds /\ e.id < nextId
               /\ OneShot(e.id)' => /\ e.once /\ fired[e.id] = {}
                                    /\ rules'[e.id].result # "missed"
    <3>1. /\ e.id \in RuleIds /\ rules[e.id].enabled
          /\ e.once <=> rules[e.id].kind = "once"
          /\ e.id \notin MissedOnce(minute)
      BY <2>2, DueIsNotMissed
    <3>2. rules'[e.id] = rules[e.id]
      BY <2>4, <3>1
    <3>3. e.id < nextId
      BY <1>0, <3>1 DEF OutcomeInv, FreshIds, OneTarget, Settled, Waiting,
         NoRule, RuleIds
    <3> QED BY <2>1, <3>1, <3>2, <3>3 DEF OutcomeInv, FreshIds, OneTarget,
       Settled, Waiting, OneShot
  <2>9. FreshIds'
    BY <2>1, <2>5, <2>8 DEF OutcomeInv, FreshIds
  <2>10. OneTarget'
    BY <2>6 DEF OutcomeInv, OneTarget
  <2>11. Settled'
    BY <2>1, <2>7 DEF Settled
  <2>12. Waiting'
    BY <2>1, <2>8 DEF Waiting
  <2> QED BY <2>9, <2>10, <2>11, <2>12 DEF OutcomeInv
<1>2a. CASE BeginTickBlind
  <2>1. UNCHANGED <<rules, nextId, fired, edited, unsaved, due>>
    BY <1>2a DEF BeginTickBlind
  <2> QED BY <2>1 DEF OutcomeInv, FreshIds, OneTarget, Settled, Waiting,
     OneShot
<1>3. ASSUME NEW e \in due, StartFire(e) PROVE OutcomeInv'
  BY <1>3 DEF StartFire, OutcomeInv, FreshIds, OneTarget, Settled, Waiting,
     OneShot
<1>4. ASSUME NEW e \in due, NEW saved \in BOOLEAN, FinishFire(e, saved)
      PROVE  OutcomeInv'
  <2>1. /\ due' = due \ {e}
        /\ fired' = [fired EXCEPT ![e.id] = @ \cup {<<runNo, minute>>}]
        /\ unsaved' = IF saved THEN unsaved ELSE unsaved \cup {e.id}
        /\ UNCHANGED <<nextId, edited>>
        /\ e.id \in RuleIds /\ e.id < nextId
    BY <1>0, <1>4 DEF FinishFire, OutcomeInv, FreshIds
  <2>2. \A i \in RuleIds \ {e.id} : rules'[i] = rules[i] /\ fired'[i] = fired[i]
    BY <1>0, <1>4, <2>1 DEF FinishFire
  <2>3. fired'[e.id] = fired[e.id] \cup {<<runNo, minute>>}
    BY <1>0, <2>1
  <2>4. CASE saved /\ Stored(e.id)
    <3>1. rules'[e.id] = AfterFire(rules[e.id], e.once)
      BY <1>0, <1>4, <2>1, <2>4 DEF FinishFire
    <3>2. /\ rules'[e.id].kind = rules[e.id].kind
          /\ rules'[e.id].due = rules[e.id].due
          /\ rules'[e.id].result = "ran"
          /\ rules'[e.id].enabled => ~e.once
      <4>1. rules[e.id] \in Rule
        BY <1>0, <2>1
      <4>2. rules'[e.id].enabled = (rules[e.id].enabled /\ ~e.once)
        BY <3>1, <4>1, AfterFireSays
      <4>3. rules'[e.id].enabled => ~e.once
        BY <4>2
      <4> QED BY <3>1, <4>1, <4>3, AfterFireSays
    <3>3. OneShot(e.id) => e.once /\ fired[e.id] = {}
      BY DEF OutcomeInv, FreshIds, OneTarget, Settled, Waiting
    <3>4. \A f \in due' : f.id # e.id
      BY <2>1 DEF FiredBehind
    <3> QED
      <4>1. FreshIds'
        BY <1>0, <2>1, <2>2 DEF OutcomeInv, FreshIds, RuleIds
      <4>2. OneTarget'
        BY <2>2, <3>2 DEF OutcomeInv, OneTarget
      <4>3. Settled'
        <5>1. OneShot(e.id)' => /\ ~rules'[e.id].enabled
                                /\ fired'[e.id] = {<<runNo, minute>>}
          BY <2>1, <2>3, <3>2, <3>3 DEF OneShot
        <5>2. \A i \in RuleIds \ {e.id} : OneShot(i)' <=> OneShot(i)
          BY <2>1, <2>2 DEF OneShot
        <5> QED BY <2>1, <2>2, <3>2, <5>1, <5>2 DEF OutcomeInv, Settled
      <4>4. Waiting'
        <5>1. ASSUME NEW f \in due', OneShot(f.id)'
              PROVE  /\ f.once /\ fired'[f.id] = {}
                     /\ rules'[f.id].result # "missed"
          <6>1. f \in due /\ f.id \in RuleIds \ {e.id}
            BY <1>0, <2>1, <3>4
          <6>2. OneShot(f.id)
            BY <2>1, <2>2, <5>1, <6>1 DEF OneShot
          <6> QED BY <2>2, <6>1, <6>2 DEF OutcomeInv, Waiting
        <5> QED BY <5>1 DEF Waiting
      <4> QED BY <4>1, <4>2, <4>3, <4>4 DEF OutcomeInv
  <2>5. CASE ~(saved /\ Stored(e.id))
    <3>1. rules' = rules
      BY <1>4, <2>5 DEF FinishFire
    <3>2. rules[e.id].kind # "once" \/ e.id \in unsaved'
      BY <2>1, <2>5 DEF Stored
    <3>3. \A f \in due' : f.id # e.id
      BY <2>1 DEF FiredBehind
    <3> QED
      <4>1. FreshIds'
        BY <1>0, <2>1, <2>2, <3>1 DEF OutcomeInv, FreshIds, RuleIds
      <4>2. OneTarget'
        BY <3>1 DEF OutcomeInv, OneTarget
      <4>3. \A i \in RuleIds : OneShot(i)' => OneShot(i) /\ i # e.id
        BY <2>1, <3>1, <3>2 DEF OneShot
      <4>4. Settled'
        BY <2>2, <3>1, <4>3 DEF OutcomeInv, Settled
      <4>5. Waiting'
        BY <1>0, <2>1, <2>2, <3>1, <3>3, <4>3 DEF OutcomeInv, Waiting
      <4> QED BY <4>1, <4>2, <4>4, <4>5 DEF OutcomeInv
  <2> QED BY <2>4, <2>5
<1>5. CASE EndTick
  <2>1. UNCHANGED <<rules, nextId, fired, edited, unsaved, due>>
    BY <1>5 DEF EndTick
  <2> QED BY <2>1 DEF OutcomeInv, FreshIds, OneTarget, Settled, Waiting,
     OneShot
<1>6. CASE EndCycle
  <2>1. UNCHANGED <<rules, nextId, fired, edited, unsaved, due>>
    BY <1>6 DEF EndCycle
  <2> QED BY <2>1 DEF OutcomeInv, FreshIds, OneTarget, Settled, Waiting,
     OneShot
<1>7. CASE Restart
  <2>1. due' = {} /\ UNCHANGED <<rules, nextId, fired, edited, unsaved>>
    BY <1>7 DEF Restart
  <2> QED BY <2>1 DEF OutcomeInv, FreshIds, OneTarget, Settled, Waiting,
     OneShot
<1>8. ASSUME NEW t \in Triggers, NEW on \in BOOLEAN,
             NEW readable \in BOOLEAN, CreateRule(t, on, readable)
      PROVE  OutcomeInv'
  <2> DEFINE r == [kind |-> t.kind, due |-> t.due, enabled |-> on,
                   firedAt |-> NoMinute, result |-> "none"]
  <2>1. /\ rules' = [i \in RuleIds |-> IF i = nextId THEN r
                      ELSE IF readable THEN rules[i] ELSE NoRule]
        /\ nextId' = nextId + 1
        /\ nextId \in RuleIds
        /\ UNCHANGED <<due, fired, edited, unsaved>>
    BY <1>8 DEF CreateRule
  <2>2. /\ rules'[nextId] = r
        /\ \A i \in RuleIds \ {nextId} :
             rules'[i] = rules[i] \/ rules'[i] = NoRule
    BY <1>0, <2>1
  <2>2a. NoRule.kind = "none"
    BY DEF NoRule
  <2>3. fired[nextId] = {} /\ \A e \in due : e.id # nextId
    BY <1>0, <2>1 DEF OutcomeInv, FreshIds, OneTarget, Settled, Waiting,
       RuleIds
  <2>4. r.kind = "once" => \E l \in r.due : r.due = {l}
    BY TriggersAssumption
  <2>5. r.result = "none"
    OBVIOUS
  <2> HIDE DEF r
  <2>6. \A i \in RuleIds : i >= nextId + 1 => i # nextId /\ i >= nextId
    BY <1>0 DEF RuleIds
  <2>7. \A e \in due : e.id < nextId + 1
    BY <1>0 DEF OutcomeInv, FreshIds, OneTarget, Settled, Waiting, RuleIds
  <2>8. \A i \in RuleIds : OneShot(i)' /\ i # nextId =>
          OneShot(i) /\ rules'[i] = rules[i]
    BY <2>1, <2>2, <2>2a DEF OneShot
  <2>9. FreshIds'
    BY <1>0, <2>1, <2>2, <2>6, <2>7 DEF OutcomeInv, FreshIds
  <2>10. OneTarget'
    BY <2>2, <2>2a, <2>4 DEF OutcomeInv, OneTarget
  <2>11. Settled'
    BY <2>1, <2>2, <2>3, <2>5, <2>8 DEF OutcomeInv, Settled
  <2>12. Waiting'
    BY <1>0, <2>1, <2>3, <2>8 DEF OutcomeInv, Waiting
  <2> QED BY <2>9, <2>10, <2>11, <2>12 DEF OutcomeInv
<1>9. ASSUME NEW i \in RuleIds, Touched(i), Stored(i),
             \A j \in RuleIds \ {i} : rules'[j] = rules[j],
             rules'[i].kind = "once" =>
               \E l \in rules'[i].due : rules'[i].due = {l}
      PROVE  OutcomeInv'
  <2>1. edited' = edited \cup {i}
        /\ UNCHANGED <<nextId, due, fired, unsaved>>
    BY <1>9 DEF Touched
  <2>2. i < nextId
    BY <1>0, <1>9 DEF OutcomeInv, FreshIds, OneTarget, Settled, Waiting,
       Stored, NoRule, RuleIds
  <2>3. \A j \in RuleIds : j >= nextId => j # i
    BY <1>0, <2>2 DEF RuleIds
  <2>4. FreshIds'
    BY <1>9, <2>1, <2>3 DEF OutcomeInv, FreshIds
  <2>5. OneTarget'
    BY <1>9 DEF OutcomeInv, OneTarget
  <2>6. \A j \in RuleIds : OneShot(j)' => OneShot(j) /\ j # i
    BY <1>9, <2>1 DEF OneShot
  <2>7. Settled'
    BY <1>9, <2>1, <2>6 DEF OutcomeInv, Settled
  <2>8. Waiting'
    BY <1>0, <1>9, <2>1, <2>6 DEF OutcomeInv, Waiting
  <2> QED BY <2>4, <2>5, <2>7, <2>8 DEF OutcomeInv
<1>10. ASSUME NEW i \in RuleIds, ToggleRule(i) PROVE OutcomeInv'
  <2>1. /\ Touched(i) /\ Stored(i)
        /\ rules' = [rules EXCEPT ![i].enabled = ~@]
    BY <1>10 DEF ToggleRule
  <2>2. /\ \A j \in RuleIds \ {i} : rules'[j] = rules[j]
        /\ rules'[i].kind = rules[i].kind /\ rules'[i].due = rules[i].due
    BY <1>0, <2>1 DEF Rule
  <2>3. rules'[i].kind = "once" =>
          \E l \in rules'[i].due : rules'[i].due = {l}
    BY <2>2 DEF OutcomeInv, FreshIds, OneTarget, Settled, Waiting
  <2> QED BY <1>9, <2>1, <2>2, <2>3
<1>11. ASSUME NEW i \in RuleIds, NEW t \in Triggers, NEW on \in BOOLEAN,
              EditRule(i, t, on)
       PROVE  OutcomeInv'
  <2>1. /\ Touched(i) /\ Stored(i)
        /\ rules' = [rules EXCEPT ![i] = [@ EXCEPT !.kind = t.kind,
                                                   !.due = t.due,
                                                   !.enabled = on]]
    BY <1>11 DEF EditRule
  <2>2. /\ \A j \in RuleIds \ {i} : rules'[j] = rules[j]
        /\ rules'[i].kind = t.kind /\ rules'[i].due = t.due
    BY <1>0, <2>1 DEF Rule
  <2>3. rules'[i].kind = "once" =>
          \E l \in rules'[i].due : rules'[i].due = {l}
    BY <2>2, TriggersAssumption
  <2> QED BY <1>9, <2>1, <2>2, <2>3
<1>12. ASSUME NEW i \in RuleIds, DeleteRule(i) PROVE OutcomeInv'
  <2>1. Touched(i) /\ Stored(i) /\ rules' = [rules EXCEPT ![i] = NoRule]
    BY <1>12 DEF DeleteRule
  <2>2. /\ \A j \in RuleIds \ {i} : rules'[j] = rules[j]
        /\ rules'[i].kind # "once"
    BY <1>0, <2>1 DEF NoRule
  <2> QED BY <1>9, <2>1, <2>2
<1>13. CASE Clock
  <2>1. UNCHANGED <<rules, nextId, fired, edited, unsaved, due>>
    BY <1>13 DEF Clock, Tick, StepBack
  <2> QED BY <2>1 DEF OutcomeInv, FreshIds, OneTarget, Settled, Waiting,
     OneShot
<1>14. CASE UNCHANGED vars
  BY <1>14 DEF vars, OutcomeInv, FreshIds, OneTarget, Settled, Waiting,
     OneShot
<1> QED
  BY <1>1, <1>2, <1>2a, <1>3, <1>4, <1>5, <1>6, <1>7, <1>8, <1>10, <1>11,
     <1>12, <1>13, <1>14 DEF Next, Task, Routes

\* A one-shot nobody edits runs once or is missed, never twice and never both,
\* however often the process restarts, whatever the clock does and whenever
\* the file fails, unless it is the outcome itself that was not written.
THEOREM OneOutcomeHolds == Spec => []OneOutcome
<1>1. OutcomeState => OneOutcome
  <2> SUFFICES ASSUME OutcomeInv, NEW i \in RuleIds \ (edited \cup unsaved),
                      rules[i].kind = "once"
               PROVE  /\ Cardinality(fired[i]) <= 1
                      /\ rules[i].result = "missed" => fired[i] = {}
    BY DEF OneOutcome, OutcomeState
  <2>1. fired[i] = {} \/ \E f : fired[i] = {f}
    BY DEF OutcomeInv, FreshIds, OneTarget, Settled, Waiting, OneShot
  <2>2. Cardinality(fired[i]) <= 1
    <3>1. CASE fired[i] = {}
      BY <3>1, FS_EmptySet
    <3>2. ASSUME NEW f, fired[i] = {f} PROVE Cardinality(fired[i]) <= 1
      <4>1. Cardinality({f}) = 1
        BY FS_Singleton
      <4> QED BY <3>2, <4>1
    <3> QED BY <2>1, <3>1, <3>2
  <2>3. rules[i].result = "missed" => fired[i] = {}
    BY DEF OutcomeInv, FreshIds, OneTarget, Settled, Waiting, OneShot
  <2> QED BY <2>2, <2>3
<1>2. Init => OutcomeState
  BY TypeInit, FiredInit, OutcomeInit DEF OutcomeState
<1>3. OutcomeState /\ [Next]_vars => OutcomeState'
  BY TypeNext, FiredNext, OutcomeNext DEF OutcomeState
<1> QED
  BY <1>1, <1>2, <1>3, PTL DEF Spec

-----------------------------------------------------------------------------
(* A one-shot accepted in time runs                                        *)

\* The first minute not begun, anywhere in the loop; where handlers run it is
\* NextMinute.
Upcoming == IF pc = "sleep" THEN last + 1
            ELSE IF pc = "scan" THEN minute ELSE minute + 1

\* The cursor has passed every minute up to Upcoming, and before the first
\* cycle nobody has created a rule.
KeepsUp == ~Disturbed =>
  /\ last <= now /\ current <= now
  /\ pc = "scan" => last <= current /\ minute <= current + 1
  /\ pc = "sleep" /\ last = NoMinute => early = {}

\* The one-shots that nothing but the clock decides about.
Undisturbed == early \ (edited \cup unsaved \cup unread)

\* An armed one-shot is being fired or its label still lies ahead, unless it
\* was lost with the file.
Punctual == ~Disturbed =>
  \A i \in Undisturbed : Stored(i) =>
    /\ rules[i].kind = "once" /\ rules[i].result # "missed"
    /\ rules[i].enabled => /\ rules[i].firedAt = NoMinute
                           /\ \/ \E e \in due : e.id = i
                              \/ StillAhead(rules[i], Upcoming)

PunctualInv ==
  /\ \A i \in early : i < nextId
  /\ KeepsUp
  /\ Punctual

LEMMA DisturbedStays ==
  TypeInv /\ [Next]_vars /\ ~Disturbed' =>
    ~Disturbed /\ runNo' = runNo /\ stepBacks' = stepBacks
<1> SUFFICES ASSUME TypeInv, [Next]_vars, ~Disturbed'
             PROVE  ~Disturbed /\ runNo' = runNo /\ stepBacks' = stepBacks
  OBVIOUS
<1> USE DEF Disturbed, clockVars, storeVars, taskVars, histVars
<1>1. runNo \in Nat /\ stepBacks \in Nat
  BY DEF TypeInv, TypeOK, ClockType, TaskType
<1>2. CASE Task
  <2>1. UNCHANGED <<runNo, stepBacks>>
    BY <1>2 DEF Task, Wake, BeginTick, BeginTickBlind, EndTick, EndCycle,
       StartFire, FinishFire
  <2>2. gapSeen => gapSeen'
    BY <1>2, Zenon DEF Task, Wake, BeginTick, BeginTickBlind, EndTick,
       EndCycle, StartFire, FinishFire
  <2> QED BY <2>1, <2>2
<1>3. CASE Routes
  <2>1. UNCHANGED <<taskVars, clockVars, gapSeen>>
    BY <1>3, Zenon DEF Routes, CreateRule, ToggleRule, DeleteRule, EditRule,
       Touched
  <2> QED BY <2>1
<1>4. CASE Tick
  BY <1>4 DEF Tick
<1>5. ASSUME NEW t \in Minute, StepBack(t) PROVE FALSE
  BY <1>1, <1>5 DEF StepBack
<1>6. ~Restart
  BY <1>1 DEF Restart
<1>7. CASE UNCHANGED vars
  BY <1>7 DEF vars
<1> QED BY <1>2, <1>3, <1>4, <1>5, <1>6, <1>7 DEF Next, Clock

LEMMA KeepsUpNext == TypeInv /\ KeepsUp /\ [Next]_vars => KeepsUp'
<1> SUFFICES ASSUME TypeInv, KeepsUp, [Next]_vars, ~Disturbed'
             PROVE  /\ last' <= now' /\ current' <= now'
                    /\ pc' = "scan" => /\ last' <= current'
                                       /\ minute' <= current' + 1
                    /\ pc' = "sleep" /\ last' = NoMinute => early' = {}
  BY DEF KeepsUp
<1> USE DEF clockVars, storeVars, taskVars, histVars
<1>0. /\ now \in Minute
      /\ last \in Minute \cup {NoMinute} /\ current \in Minute \cup {NoMinute}
      /\ minute \in NoMinute .. Horizon + 1
      /\ runNo' = 0 /\ stepBacks' = 0
      /\ last <= now /\ current <= now
      /\ pc = "scan" => last <= current /\ minute <= current + 1
      /\ pc = "sleep" /\ last = NoMinute => early = {}
  BY DisturbedStays
     DEF TypeInv, TypeOK, ClockType, TaskType, KeepsUp, Disturbed
<1>1. CASE Wake
  BY <1>0, <1>1 DEF Wake, FirstMinute, Minute
<1>2. ASSUME NEW lost \in SUBSET RuleIds, BeginTick(lost) \/ BeginTickBlind
      PROVE  /\ pc' \in {"run", "fire"}
             /\ UNCHANGED <<now, last, current>>
  BY <1>2 DEF BeginTick, BeginTickBlind
<1>3. ASSUME NEW e \in due, NEW saved \in BOOLEAN,
             StartFire(e) \/ FinishFire(e, saved)
      PROVE  /\ pc' \in {"run", "fire"}
             /\ UNCHANGED <<now, last, current>>
  BY <1>3 DEF StartFire, FinishFire
<1>4. CASE EndTick
  BY <1>0, <1>4 DEF EndTick, TypeInv, Ticking, Minute
<1>5. CASE EndCycle
  BY <1>0, <1>5 DEF EndCycle, TypeInv, Ticking, Minute
<1>6. ASSUME NEW t \in Triggers, NEW on \in BOOLEAN,
             NEW readable \in BOOLEAN, CreateRule(t, on, readable)
      PROVE  /\ UNCHANGED <<now, last, current, minute, pc>>
             /\ pc = "fire" \/ last # NoMinute
  BY <1>6 DEF CreateRule, HandlerRuns
<1>7. ASSUME NEW i \in RuleIds, Touched(i)
      PROVE  UNCHANGED <<now, last, current, minute, pc, early>>
  BY <1>7 DEF Touched
<1>8. ASSUME NEW i \in RuleIds,
             \/ ToggleRule(i) \/ DeleteRule(i)
             \/ \E t \in Triggers, on \in BOOLEAN : EditRule(i, t, on)
      PROVE  Touched(i)
  BY <1>8 DEF ToggleRule, DeleteRule, EditRule
<1>9. CASE Tick
  BY <1>0, <1>9 DEF Tick, Minute
<1>10. ASSUME NEW t \in Minute, StepBack(t) PROVE FALSE
  BY <1>0, <1>10 DEF StepBack, TypeInv, TypeOK, ClockType
<1>11. ~Restart
  BY <1>0 DEF Restart, TypeInv, TypeOK, TaskType
<1>12. CASE UNCHANGED vars
  BY <1>0, <1>12 DEF vars
<1> QED
  BY <1>0, <1>1, <1>2, <1>3, <1>4, <1>5, <1>6, <1>7, <1>8, <1>9, <1>10,
     <1>11, <1>12 DEF Next, Task, Routes, Clock

\* What is ahead depends on the one-shot's label alone.
LEMMA AheadOfLabel ==
  ASSUME NEW r, NEW q, r.due = q.due, NEW n
  PROVE  StillAhead(r, n) = StillAhead(q, n)
  BY DEF StillAhead, OnceTarget

\* Minute n is evaluated: it is the one-shot's, or the label is still ahead.
LEMMA AheadAdvances ==
  ASSUME NEW r, NEW l, r.due = {l}, NEW n \in Minute, StillAhead(r, n)
  PROVE  /\ ~(OnceTarget(r) < Label[n])
         /\ Label[n] \notin r.due => StillAhead(r, n + 1)
<1>1. OnceTarget(r) = l
  BY DEF OnceTarget
<1>2. PICK m \in Minute : /\ n <= m /\ Label[m] = l
                          /\ \A k \in n .. m - 1 : Label[k] < l
  BY <1>1 DEF StillAhead
<1>3. l \in Nat /\ Label[n] \in Nat
  BY <1>2, LabelAssumption
<1>4. CASE m = n
  BY <1>1, <1>2, <1>3, <1>4
<1>5. CASE m # n
  <2>1. n \in n .. m - 1 /\ n + 1 <= m
    BY <1>2, <1>5 DEF Minute
  <2>2. Label[n] < l
    BY <1>2, <2>1
  <2>3. \A k \in n + 1 .. m - 1 : Label[k] < l
    BY <1>2 DEF Minute
  <2>4. StillAhead(r, n + 1)
    BY <1>1, <1>2, <2>1, <2>3 DEF StillAhead
  <2> QED BY <1>1, <1>3, <2>2, <2>4
<1> QED BY <1>4, <1>5

\* The task sleeps, wakes and moves from minute to minute without passing one
\* that it has not evaluated.
LEMMA UpcomingKept ==
  ASSUME OutcomeState, PunctualInv, ~Disturbed',
         \/ Wake \/ EndTick \/ EndCycle \/ Tick
         \/ \E e \in due : StartFire(e)
  PROVE  /\ UNCHANGED <<rules, nextId, due, early, Undisturbed>>
         /\ early = {} \/ Upcoming' = Upcoming
<1> USE DEF clockVars, storeVars, taskVars, histVars
<1>1. UNCHANGED <<rules, nextId, due, early, Undisturbed>>
  BY DEF Undisturbed, Wake, EndTick, EndCycle, Tick, StartFire
<1>2. ~Disturbed
  <2>1. [Next]_vars
    BY DEF Next, Task, Clock
  <2> QED BY <2>1, DisturbedStays DEF OutcomeState
<1>3. /\ now \in Minute
      /\ last \in Minute \cup {NoMinute} /\ current \in Minute \cup {NoMinute}
      /\ minute \in NoMinute .. Horizon + 1
      /\ last <= now /\ current <= now
      /\ pc = "scan" => last <= current /\ minute <= current + 1
      /\ pc = "sleep" /\ last = NoMinute => early = {}
  BY <1>2 DEF OutcomeState, TypeInv, TypeOK, ClockType, TaskType, PunctualInv,
     KeepsUp
<1>4. CASE Wake
  <2>1. /\ pc = "sleep" /\ pc' = "scan"
        /\ minute' = FirstMinute(last, now)
    BY <1>4 DEF Wake
  <2>2. last # NoMinute => ~(now - last > MaxCatchup)
    <3>1. ~gapSeen'
      BY Zenon DEF Disturbed
    <3> QED BY <1>4, <3>1, Zenon DEF Wake
  <2>3. last # NoMinute => FirstMinute(last, now) = last + 1
    BY <1>3, <2>2 DEF FirstMinute, Minute
  <2> QED BY <1>1, <1>3, <2>1, <2>3 DEF Upcoming
<1>5. CASE EndTick
  BY <1>1, <1>5 DEF EndTick, Upcoming
<1>6. CASE EndCycle
  <2>1. current \in Minute
    BY <1>6 DEF EndCycle, OutcomeState, TypeInv, Ticking
  <2> QED BY <1>1, <1>3, <1>6, <2>1 DEF EndCycle, Upcoming, Minute
<1>7. CASE Tick
  BY <1>1, <1>7 DEF Tick, Upcoming
<1>8. ASSUME NEW e \in due, StartFire(e) PROVE Upcoming' = Upcoming
  BY <1>8 DEF StartFire, Upcoming
<1> QED BY <1>1, <1>4, <1>5, <1>6, <1>7, <1>8

LEMMA PunctualNext == OutcomeState /\ PunctualInv /\ [Next]_vars => PunctualInv'
<1> SUFFICES ASSUME OutcomeState, PunctualInv, [Next]_vars PROVE PunctualInv'
  OBVIOUS
<1> USE DEF OutcomeState, clockVars, storeVars, taskVars, histVars
<1>0. /\ rules \in [RuleIds -> Rule] /\ nextId \in 1 .. MaxRules + 1
      /\ \A i \in early : i < nextId /\ i \in RuleIds
      /\ \A e \in due : e.id \in RuleIds
  BY DEF TypeInv, TypeOK, StoreType, HistType, TaskType, PunctualInv
<1>1. KeepsUp'
  BY KeepsUpNext DEF PunctualInv
<1>2. ~Disturbed' => ~Disturbed
  BY DisturbedStays
<1>3. ASSUME UNCHANGED <<rules, nextId, due, early, Undisturbed>>,
             \/ early = {} \/ Upcoming' = Upcoming \/ Disturbed'
      PROVE  PunctualInv'
  <2>1. \A i \in early' : i < nextId'
    BY <1>0, <1>3
  <2>2. Punctual'
    BY <1>2, <1>3 DEF PunctualInv, Punctual, StillAhead, Stored, Undisturbed
  <2> QED BY <1>1, <2>1, <2>2 DEF PunctualInv
<1>4. ASSUME \/ Wake \/ EndTick \/ EndCycle \/ Tick
             \/ \E e \in due : StartFire(e)
      PROVE  PunctualInv'
  <2>1. UNCHANGED <<rules, nextId, due, early, Undisturbed>>
    BY <1>4 DEF Undisturbed, Wake, EndTick, EndCycle, Tick, StartFire
  <2> QED BY <1>3, <1>4, <2>1, UpcomingKept
<1>5. ASSUME NEW lost \in SUBSET RuleIds, BeginTick(lost)
      PROVE  PunctualInv'
  <2>1. /\ pc = "scan" /\ minute <= current /\ pc' = "run"
        /\ due' = DueRules(minute)
        /\ UNCHANGED <<nextId, minute, early, Undisturbed>>
    BY <1>5 DEF BeginTick, Undisturbed
  <2>2. minute \in Minute
    BY <2>1 DEF TypeInv, TypeOK, TaskType, Ticking, Minute
  <2>3. due = {} /\ Upcoming = minute /\ Upcoming' = minute + 1
    BY <2>1 DEF TypeInv, Ticking, Upcoming
  <2>4. \A i \in early' : i < nextId'
    BY <1>0, <2>1
  <2>5. ASSUME ~Disturbed, NEW i \in Undisturbed, Stored(i)'
        PROVE  /\ rules'[i].kind = "once" /\ rules'[i].result # "missed"
               /\ rules'[i].enabled =>
                    /\ rules'[i].firedAt = NoMinute
                    /\ \/ \E e \in due' : e.id = i
                       \/ StillAhead(rules'[i], Upcoming')
    <3>0. i \in RuleIds /\ i \in early
      BY <1>0 DEF Undisturbed
    <3>0a. Stored(i)
      BY <1>0, <1>5, <2>5, <3>0 DEF BeginTick, Stored, Rule
    <3>1. /\ i \in RuleIds
          /\ rules[i].kind = "once" /\ rules[i].result # "missed"
          /\ rules[i].enabled => /\ rules[i].firedAt = NoMinute
                                 /\ StillAhead(rules[i], minute)
      BY <2>3, <2>5, <3>0, <3>0a DEF PunctualInv, Punctual
    <3>2. PICK l : rules[i].due = {l}
      BY <3>1 DEF OutcomeInv, OneTarget
    <3>3. i \notin MissedOnce(minute)
      BY <2>2, <3>1, <3>2, AheadAdvances DEF MissedOnce
    <3>4. rules'[i] = rules[i]
      BY <1>5, <3>1, <3>3 DEF BeginTick
    <3>5. ASSUME rules[i].enabled, Label[minute] \in rules[i].due
          PROVE  \E e \in due' : e.id = i
      <4>1. RuleDueAt(rules[i], minute)
        BY <3>1, <3>5 DEF RuleDueAt, Names
      <4>2. ~FiredAtThisLabelRecently(rules[i], minute)
        BY <3>1, <3>5 DEF FiredAtThisLabelRecently
      <4>3. [id |-> i, once |-> rules[i].kind = "once"] \in due'
        BY <2>1, <3>1, <4>1, <4>2 DEF DueRules
      <4> QED BY <4>3
    <3>6. ASSUME rules[i].enabled, Label[minute] \notin rules[i].due
          PROVE  StillAhead(rules[i], minute + 1)
      BY <2>2, <3>1, <3>2, <3>6, AheadAdvances
    <3> QED BY <2>3, <3>1, <3>4, <3>5, <3>6
  <2>6. Punctual'
    BY <1>2, <2>1, <2>5 DEF Punctual
  <2> QED BY <1>1, <2>4, <2>6 DEF PunctualInv
<1>5a. CASE BeginTickBlind
  <2>1. /\ pc = "scan" /\ minute <= current /\ pc' = "run"
        /\ unread' = unread \cup {e.id : e \in DueRules(minute)}
        /\ UNCHANGED <<rules, nextId, minute, early, edited, unsaved, due>>
    BY <1>5a DEF BeginTickBlind
  <2>2. minute \in Minute
    BY <2>1 DEF TypeInv, TypeOK, TaskType, Ticking, Minute
  <2>3. due = {} /\ Upcoming = minute /\ Upcoming' = minute + 1
    BY <2>1 DEF TypeInv, Ticking, Upcoming
  <2>4. \A i \in early' : i < nextId'
    BY <1>0, <2>1
  <2>5. ASSUME ~Disturbed, NEW i \in Undisturbed', Stored(i)'
        PROVE  /\ rules'[i].kind = "once" /\ rules'[i].result # "missed"
               /\ rules'[i].enabled =>
                    /\ rules'[i].firedAt = NoMinute
                    /\ \/ \E e \in due' : e.id = i
                       \/ StillAhead(rules'[i], Upcoming')
    <3>0. i \in Undisturbed /\ i \in RuleIds /\ Stored(i)
          /\ ~\E e \in DueRules(minute) : e.id = i
      BY <1>0, <2>1, <2>5 DEF Undisturbed, Stored
    <3>1. /\ rules[i].kind = "once" /\ rules[i].result # "missed"
          /\ rules[i].enabled => /\ rules[i].firedAt = NoMinute
                                 /\ StillAhead(rules[i], minute)
      BY <2>3, <2>5, <3>0 DEF PunctualInv, Punctual
    <3>2. PICK l : rules[i].due = {l}
      BY <3>0, <3>1 DEF OutcomeInv, OneTarget
    <3>3. ASSUME rules[i].enabled PROVE Label[minute] \notin rules[i].due
      <4>1. SUFFICES ASSUME Label[minute] \in rules[i].due PROVE FALSE
        OBVIOUS
      <4>2. RuleDueAt(rules[i], minute)
        BY <3>1, <3>3, <4>1 DEF RuleDueAt, Names
      <4>3. ~FiredAtThisLabelRecently(rules[i], minute)
        BY <3>1, <3>3 DEF FiredAtThisLabelRecently
      <4>4. [id |-> i, once |-> rules[i].kind = "once"] \in DueRules(minute)
        BY <3>0, <4>2, <4>3 DEF DueRules
      <4> QED BY <3>0, <4>4
    <3>4. rules[i].enabled => StillAhead(rules[i], minute + 1)
      BY <2>2, <3>1, <3>2, <3>3, AheadAdvances
    <3> QED BY <2>1, <2>3, <3>1, <3>4
  <2>6. Punctual'
    BY <1>2, <2>1, <2>5 DEF Punctual
  <2> QED BY <1>1, <2>4, <2>6 DEF PunctualInv
<1>6. ASSUME NEW e \in due, NEW saved \in BOOLEAN, FinishFire(e, saved)
      PROVE  PunctualInv'
  <2>1. /\ pc = "fire" /\ pc' = "run" /\ due' = due \ {e}
        /\ UNCHANGED <<nextId, minute, edited, early, unread>>
        /\ unsaved' = IF saved THEN unsaved ELSE unsaved \cup {e.id}
        /\ e.id \in RuleIds
    BY <1>0, <1>6 DEF FinishFire
  <2>2. Upcoming' = Upcoming
    BY <2>1 DEF Upcoming
  <2>3. \A i \in early' : i < nextId'
    BY <1>0, <2>1
  <2>4. ASSUME ~Disturbed, NEW i \in Undisturbed', Stored(i)'
        PROVE  /\ rules'[i].kind = "once" /\ rules'[i].result # "missed"
               /\ rules'[i].enabled =>
                    /\ rules'[i].firedAt = NoMinute
                    /\ \/ \E f \in due' : f.id = i
                       \/ StillAhead(rules'[i], Upcoming')
    <3>0. /\ i \in Undisturbed /\ i \in early /\ i \in RuleIds
          /\ i = e.id => saved
      BY <1>0, <2>1, <2>4 DEF Undisturbed
    <3>0a. Stored(i)
      <4>1. i = e.id /\ ~Stored(i) => rules' = rules
        BY <1>6 DEF FinishFire
      <4>2. i # e.id => rules'[i] = rules[i]
        BY <1>0, <1>6, <2>1, <3>0 DEF FinishFire
      <4> QED BY <2>4, <4>1, <4>2 DEF Stored
    <3>1. /\ i \in RuleIds
          /\ rules[i].kind = "once" /\ rules[i].result # "missed"
          /\ rules[i].enabled => /\ rules[i].firedAt = NoMinute
                                 /\ \/ \E f \in due : f.id = i
                                    \/ StillAhead(rules[i], Upcoming)
      BY <2>4, <3>0, <3>0a DEF PunctualInv, Punctual
    <3>2. CASE i = e.id
      <4>1. Stored(i) /\ rules[i] \in Rule
        BY <1>0, <3>1 DEF Stored
      <4>2. rules'[i] = AfterFire(rules[i], e.once)
        BY <1>0, <1>6, <3>0, <3>1, <3>2, <4>1 DEF FinishFire
      <4>3. e.once
        BY <3>0, <3>1, <3>2 DEF OutcomeInv, Waiting, OneShot, Undisturbed
      <4>4. rules'[i].enabled = (rules[i].enabled /\ ~e.once)
        BY <4>1, <4>2, AfterFireSays
      <4>5. ~rules'[i].enabled
        BY <4>3, <4>4, Zenon
      <4> QED BY <3>1, <4>1, <4>2, <4>5, AfterFireSays
    <3>3. CASE i # e.id
      <4>1. rules'[i] = rules[i]
        BY <1>0, <1>6, <2>1, <3>1, <3>3 DEF FinishFire
      <4>2. \A f \in due : f.id = i => f \in due'
        BY <2>1, <3>3
      <4> QED BY <2>2, <3>1, <4>1, <4>2
    <3> QED BY <3>2, <3>3
  <2>5. Punctual'
    BY <1>2, <2>1, <2>4 DEF Punctual
  <2> QED BY <1>1, <2>3, <2>5 DEF PunctualInv
<1>7. ASSUME NEW t \in Triggers, NEW on \in BOOLEAN,
             NEW readable \in BOOLEAN, CreateRule(t, on, readable)
      PROVE  PunctualInv'
  <2> DEFINE r == [kind |-> t.kind, due |-> t.due, enabled |-> on,
                   firedAt |-> NoMinute, result |-> "none"]
  <2>1. /\ rules' = [i \in RuleIds |-> IF i = nextId THEN r
                      ELSE IF readable THEN rules[i] ELSE NoRule]
        /\ nextId' = nextId + 1
        /\ nextId \in RuleIds
        /\ UNCHANGED <<pc, last, minute, due, edited, unsaved, unread>>
        /\ pc = "fire" \/ pc = "sleep"
    BY <1>7 DEF CreateRule, HandlerRuns
  <2>2. /\ rules'[nextId] = r
        /\ \A i \in RuleIds \ {nextId} :
             rules'[i] = rules[i] \/ rules'[i] = NoRule
    BY <1>0, <2>1
  <2>2a. NoRule.kind = "none"
    BY DEF NoRule
  <2>3. /\ r.kind = t.kind /\ r.due = t.due
        /\ r.firedAt = NoMinute /\ r.result = "none"
    OBVIOUS
  <2> HIDE DEF r
  <2>4. /\ early' \subseteq early \cup {nextId}
        /\ nextId \in early' =>
             t.kind = "once" /\ StillAhead(t, NextMinute)
    BY <1>0, <1>7 DEF CreateRule, RuleIds
  <2>5. NextMinute = Upcoming /\ Upcoming' = Upcoming
    BY <2>1 DEF NextMinute, Upcoming
  <2>6. \A i \in early' : i < nextId'
    BY <1>0, <2>1, <2>4 DEF RuleIds
  <2>7. ASSUME ~Disturbed, NEW i \in Undisturbed', Stored(i)'
        PROVE  /\ rules'[i].kind = "once" /\ rules'[i].result # "missed"
               /\ rules'[i].enabled =>
                    /\ rules'[i].firedAt = NoMinute
                    /\ \/ \E f \in due' : f.id = i
                       \/ StillAhead(rules'[i], Upcoming')
    <3>1. CASE i = nextId
      <4>1. rules'[i].kind = "once" /\ rules'[i].result # "missed"
            /\ rules'[i].firedAt = NoMinute
        BY <2>2, <2>3, <2>4, <2>7, <3>1 DEF Undisturbed
      <4>2. StillAhead(rules'[i], Upcoming')
        BY <2>2, <2>3, <2>4, <2>5, <2>7, <3>1, AheadOfLabel DEF Undisturbed
      <4> QED BY <4>1, <4>2
    <3>2. CASE i # nextId
      <4>1. i \in Undisturbed /\ i \in RuleIds
        BY <1>0, <2>1, <2>4, <2>7, <3>2 DEF Undisturbed
      <4>2. rules'[i] = rules[i] /\ Stored(i)
        BY <2>2, <2>2a, <2>7, <3>2, <4>1 DEF Stored
      <4> QED BY <2>1, <2>5, <2>7, <4>1, <4>2 DEF PunctualInv, Punctual
    <3> QED BY <3>1, <3>2
  <2>8. Punctual'
    BY <1>2, <2>1, <2>7 DEF Punctual
  <2> QED BY <1>1, <2>6, <2>8 DEF PunctualInv
<1>8. ASSUME NEW i \in RuleIds, Touched(i),
             \A j \in RuleIds \ {i} : rules'[j] = rules[j]
      PROVE  PunctualInv'
  <2>1. /\ edited' = edited \cup {i}
        /\ UNCHANGED <<nextId, pc, last, minute, due, early, unsaved, unread>>
    BY <1>8 DEF Touched
  <2>2. Upcoming' = Upcoming
    BY <2>1 DEF Upcoming
  <2>3. \A j \in Undisturbed' : j \in Undisturbed /\ rules'[j] = rules[j]
    BY <1>0, <1>8, <2>1 DEF Undisturbed
  <2>4. Punctual'
    BY <1>2, <2>1, <2>2, <2>3 DEF PunctualInv, Punctual, Stored
  <2>5. \A j \in early' : j < nextId'
    BY <1>0, <2>1
  <2> QED BY <1>1, <2>4, <2>5 DEF PunctualInv
<1>9. ASSUME NEW i \in RuleIds,
             \/ ToggleRule(i) \/ DeleteRule(i)
             \/ \E t \in Triggers, on \in BOOLEAN : EditRule(i, t, on)
      PROVE  PunctualInv'
  <2>1. Touched(i) /\ \A j \in RuleIds \ {i} : rules'[j] = rules[j]
    BY <1>0, <1>9 DEF ToggleRule, DeleteRule, EditRule
  <2> QED BY <1>8, <2>1
<1>10. CASE Restart \/ \E t \in Minute : StepBack(t)
  <2>1. UNCHANGED <<rules, nextId, early>>
    BY <1>10 DEF Restart, StepBack
  <2>2. Disturbed'
    BY <1>10 DEF Restart, StepBack, Disturbed, TypeInv, TypeOK, TaskType,
       ClockType
  <2> QED BY <1>0, <1>1, <2>1, <2>2 DEF PunctualInv, Punctual
<1>11. CASE UNCHANGED vars
  <2>1. UNCHANGED <<rules, nextId, due, early, Undisturbed, pc, last, minute>>
    BY <1>11 DEF vars, Undisturbed
  <2>2. Upcoming' = Upcoming
    BY <2>1 DEF Upcoming
  <2> QED BY <1>3, <2>1, <2>2
<1> QED
  BY <1>4, <1>5, <1>5a, <1>6, <1>7, <1>9, <1>10, <1>11
     DEF Next, Task, Routes, Clock

\* What is not in the file has no outcome.
Blank == \A i \in RuleIds : ~Stored(i) => rules[i].result # "missed"

LEMMA BlankNext == OutcomeState /\ Blank /\ [Next]_vars => Blank'
<1> SUFFICES ASSUME OutcomeState, Blank, [Next]_vars, NEW i \in RuleIds,
                    ~Stored(i)'
             PROVE  rules'[i].result # "missed"
  BY DEF Blank
<1> USE DEF clockVars, storeVars, taskVars, histVars
<1>0. /\ rules \in [RuleIds -> Rule] /\ \A e \in due : e.id \in RuleIds
      /\ NoRule.result = "none"
  BY DEF OutcomeState, TypeInv, TypeOK, StoreType, TaskType, NoRule
<1>1. ASSUME rules'[i] = rules[i] PROVE rules'[i].result # "missed"
  BY <1>1 DEF Blank, Stored
<1>2. CASE \/ Wake \/ BeginTickBlind \/ EndTick \/ EndCycle \/ Restart
           \/ Clock \/ UNCHANGED vars \/ \E e \in due : StartFire(e)
  <2>1. rules' = rules
    BY <1>2 DEF Wake, BeginTickBlind, EndTick, EndCycle, Restart, Clock, Tick,
       StepBack, StartFire, vars
  <2> QED BY <1>1, <2>1
<1>3. ASSUME NEW lost \in SUBSET RuleIds, BeginTick(lost)
      PROVE  rules'[i] = rules[i]
  BY <1>0, <1>3 DEF BeginTick, Stored, MissedOnce, Rule
<1>4. ASSUME NEW e \in due, NEW saved \in BOOLEAN, FinishFire(e, saved)
      PROVE  rules'[i] = rules[i]
  <2>1. Stored(i) /\ rules[i] \in Rule =>
          AfterFire(rules[i], e.once).kind # "none"
    BY AfterFireSays DEF Stored
  <2> QED BY <1>0, <1>4, <2>1 DEF FinishFire, Stored
<1>5. ASSUME NEW t \in Triggers, NEW on \in BOOLEAN,
             NEW readable \in BOOLEAN, CreateRule(t, on, readable)
      PROVE  rules'[i] = rules[i] \/ rules'[i].result = "none"
  BY <1>0, <1>5 DEF CreateRule
<1>6. ASSUME NEW j \in RuleIds,
             \/ ToggleRule(j) \/ DeleteRule(j)
             \/ \E t \in Triggers, on \in BOOLEAN : EditRule(j, t, on)
      PROVE  rules'[i] = rules[i] \/ rules'[i].result = "none"
  <2>1. CASE ToggleRule(j)
    BY <1>0, <2>1 DEF ToggleRule, Stored, Rule
  <2>2. CASE DeleteRule(j)
    BY <1>0, <2>2 DEF DeleteRule
  <2>3. ASSUME NEW t \in Triggers, NEW on \in BOOLEAN, EditRule(j, t, on)
        PROVE  rules'[i] = rules[i]
    BY <1>0, <2>3, TriggersAssumption
       DEF EditRule, Stored, Rule, Trigger, Kinds
  <2> QED BY <1>6, <2>1, <2>2, <2>3
<1> QED BY <1>1, <1>2, <1>3, <1>4, <1>5, <1>6 DEF Next, Task, Routes

\* schedules.py accepts a one-shot whose minute is still to come; the task that
\* catches up after an overrun then runs it, whatever is edited meanwhile and
\* whatever the file does in another minute.
THEOREM PunctualOnceRunsHolds == Spec => []PunctualOnceRuns
<1>1. Init => PunctualInv
  BY DEF Init, PunctualInv, KeepsUp, Punctual, Undisturbed, Minute
<1>2. OutcomeState /\ PunctualInv /\ Blank => PunctualOnceRuns
  <2> SUFFICES ASSUME OutcomeState, PunctualInv, Blank, ~Disturbed,
                      NEW i \in Undisturbed
               PROVE  rules[i].result # "missed"
    BY DEF PunctualOnceRuns, Undisturbed
  <2>1. CASE Stored(i)
    BY <2>1 DEF PunctualInv, Punctual
  <2>2. CASE ~Stored(i)
    BY <2>2 DEF Blank, Undisturbed, OutcomeState, TypeInv, TypeOK, HistType
  <2> QED BY <2>1, <2>2
<1>3. Init => OutcomeState
  BY TypeInit, FiredInit, OutcomeInit DEF OutcomeState
<1>4. OutcomeState /\ [Next]_vars => OutcomeState'
  BY TypeNext, FiredNext, OutcomeNext DEF OutcomeState
<1>5. Init => Blank
  BY DEF Init, Blank, NoRule
<1> QED
  BY <1>1, <1>2, <1>3, <1>4, <1>5, BlankNext, PunctualNext, PTL DEF Spec

-----------------------------------------------------------------------------
(* No rule fires again at a repeated label                                 *)

\* Minute b repeats the label of minute a shortly after.
Again(a, b) == 0 < b - a /\ b - a <= RepeatWindow /\ Label[a] = Label[b]

\* As long as minutes come in order, the task has fired nothing beyond them.
Ordered == InOrder =>
  /\ stepBacks = 0 => last <= now /\ current <= now
  /\ \A i \in RuleIds : \A f \in fired[i] :
       /\ pc = "sleep" => f[2] <= IF last = NoMinute THEN now ELSE last
       /\ pc = "scan" => /\ minute <= current => f[2] <= minute
                         /\ f[2] <= last \/ f[2] <= current
       /\ pc \in {"run", "fire"} => f[2] <= minute

\* What a rule in the file that nobody edited has fired, and fires now, its
\* trigger names.
FromTrigger ==
  \A i \in RuleIds : i < nextId /\ i \notin edited /\ Stored(i) =>
    /\ \E t \in Triggers : rules[i].kind = t.kind /\ rules[i].due = t.due
    /\ \A f \in fired[i] : Names(rules[i], f[2])
    /\ \A e \in due : e.id = i => Names(rules[i], minute)

\* last_fired holds the latest of its firings, and no two of them repeat a
\* label, nor does the one that waits.
Spaced == InOrder =>
  \A i \in RuleIds \ (edited \cup unsaved) :
    /\ Stored(i) => \A f \in fired[i] : f[2] <= rules[i].firedAt
    /\ Stored(i) /\ fired[i] # {} =>
         \E f \in fired[i] : f[2] = rules[i].firedAt
    /\ \A f, g \in fired[i] : ~Again(f[2], g[2])
    /\ \A e \in due : e.id = i => \A f \in fired[i] : ~Again(f[2], minute)

LEMMA InOrderWas ==
  TypeInv /\ [Next]_vars /\ InOrder' =>
    /\ InOrder
    /\ stepBacks' = 0 => stepBacks = 0
    /\ runNo' = 0 => runNo = 0
<1> SUFFICES ASSUME TypeInv, [Next]_vars
             PROVE  runNo <= runNo' /\ stepBacks <= stepBacks'
  BY DEF InOrder, TypeInv, TypeOK, ClockType, TaskType
<1>1. runNo \in Nat /\ stepBacks \in Nat
  BY DEF TypeInv, TypeOK, ClockType, TaskType
<1>2. \/ runNo' = runNo \/ runNo' = runNo + 1
  BY Zenon DEF Next, Task, Wake, BeginTick, BeginTickBlind, EndTick, EndCycle,
     StartFire, FinishFire, Routes, CreateRule, ToggleRule, DeleteRule,
     EditRule, Touched, Clock, Tick, StepBack, Restart, vars, taskVars
<1>3. \/ stepBacks' = stepBacks \/ stepBacks' = stepBacks + 1
  BY Zenon DEF Next, Task, Wake, BeginTick, BeginTickBlind, EndTick, EndCycle,
     StartFire, FinishFire, Routes, CreateRule, ToggleRule, DeleteRule,
     EditRule, Touched, Clock, Tick, StepBack, Restart, vars, clockVars
<1> QED BY <1>1, <1>2, <1>3

LEMMA OrderedNext ==
  TypeInv /\ FiredBehind /\ Ordered /\ [Next]_vars => Ordered'
<1> SUFFICES ASSUME TypeInv, FiredBehind, Ordered, [Next]_vars, InOrder'
             PROVE  Ordered'
  BY DEF Ordered
<1> USE DEF clockVars, storeVars, taskVars, histVars
<1>0. /\ now \in Minute
      /\ last \in Minute \cup {NoMinute} /\ current \in Minute \cup {NoMinute}
      /\ minute \in NoMinute .. Horizon + 1
      /\ fired \in [RuleIds -> SUBSET (Nat \X Minute)]
      /\ \A i \in RuleIds : \A f \in fired[i] : f[2] \in Minute
      /\ runNo \in Nat /\ stepBacks \in Nat
  BY DEF TypeInv, TypeOK, ClockType, TaskType, HistType
<1>1. /\ InOrder /\ (stepBacks' = 0 => stepBacks = 0)
      /\ (runNo' = 0 => runNo = 0)
  BY InOrderWas
<1>2. /\ stepBacks = 0 => last <= now /\ current <= now
      /\ \A i \in RuleIds : \A f \in fired[i] :
           /\ pc = "sleep" => f[2] <= IF last = NoMinute THEN now ELSE last
           /\ pc = "scan" => /\ minute <= current => f[2] <= minute
                             /\ f[2] <= last \/ f[2] <= current
           /\ pc \in {"run", "fire"} => f[2] <= minute
  BY <1>1 DEF Ordered
<1>3. CASE Wake
  <2>1. /\ pc = "sleep" /\ pc' = "scan" /\ current' = now
        /\ minute' = FirstMinute(last, now)
        /\ UNCHANGED <<now, stepBacks, last, fired>>
    BY <1>3 DEF Wake
  <2>2. \A i \in RuleIds : \A f \in fired[i] :
          /\ minute' <= current' => f[2] <= minute'
          /\ f[2] <= last' \/ f[2] <= current'
    BY <1>0, <1>2, <2>1 DEF FirstMinute, Minute
  <2> QED BY <1>0, <1>2, <2>1, <2>2 DEF Ordered, Minute
<1>4. ASSUME NEW lost \in SUBSET RuleIds, BeginTick(lost) \/ BeginTickBlind
      PROVE  Ordered'
  BY <1>2, <1>4 DEF BeginTick, BeginTickBlind, Ordered
<1>5. ASSUME NEW e \in due, StartFire(e) PROVE Ordered'
  BY <1>2, <1>5 DEF StartFire, Ordered
<1>6. ASSUME NEW e \in due, NEW saved \in BOOLEAN, FinishFire(e, saved)
      PROVE  Ordered'
  <2>1. /\ pc = "fire" /\ pc' = "run"
        /\ fired' = [fired EXCEPT ![e.id] = @ \cup {<<runNo, minute>>}]
        /\ UNCHANGED <<now, stepBacks, last, current, minute>>
    BY <1>6 DEF FinishFire
  <2>2. \A i \in RuleIds : \A f \in fired'[i] :
          f \in fired[i] \/ f = <<runNo, minute>>
    BY <1>0, <2>1
  <2>3. \A i \in RuleIds : \A f \in fired'[i] : f[2] <= minute
    BY <1>0, <1>2, <2>1, <2>2
  <2> QED BY <1>2, <2>1, <2>3 DEF Ordered
<1>7. CASE EndTick
  <2>1. /\ pc = "run" /\ pc' = "scan" /\ minute' = minute + 1
        /\ UNCHANGED <<now, stepBacks, last, current, fired>>
        /\ minute <= current /\ current \in Minute
    BY <1>7 DEF EndTick, TypeInv, Ticking
  <2>2. \A i \in RuleIds : \A f \in fired[i] :
          f[2] <= minute + 1 /\ f[2] <= current
    BY <1>0, <1>2, <2>1 DEF Minute
  <2> QED BY <1>2, <2>1, <2>2 DEF Ordered
<1>8. CASE EndCycle
  <2>1. /\ pc = "scan" /\ pc' = "sleep" /\ current' = NoMinute
        /\ last' = IF last = NoMinute \/ current > last THEN current ELSE last
        /\ UNCHANGED <<now, stepBacks, fired>>
        /\ current \in Minute
    BY <1>8 DEF EndCycle, TypeInv, Ticking
  <2>2. last' \in Minute /\ last <= last' /\ current <= last'
    BY <1>0, <2>1 DEF Minute
  <2>3. stepBacks' = 0 => last' <= now' /\ current' <= now'
    BY <1>0, <1>2, <2>1 DEF Minute
  <2>4. \A i \in RuleIds : \A f \in fired[i] : f[2] <= last'
    BY <1>0, <1>2, <2>1, <2>2 DEF Minute
  <2> QED BY <2>1, <2>2, <2>3, <2>4 DEF Ordered, Minute
<1>9. CASE Restart
  <2>1. /\ pc' = "sleep" /\ last' = NoMinute /\ current' = NoMinute
        /\ runNo' = runNo + 1
        /\ UNCHANGED <<now, stepBacks, fired>>
    BY <1>9 DEF Restart
  <2>2. stepBacks = 0
    BY <1>0, <2>1 DEF InOrder
  <2>3. \A i \in RuleIds : \A f \in fired[i] : f[2] <= now
    BY <1>0, <1>2, <2>2 DEF TypeInv, TypeOK, TaskType, Ticking, Minute
  <2> QED BY <1>0, <2>1, <2>3 DEF Ordered, Minute
<1>10. CASE Routes
  <2>1. UNCHANGED <<clockVars, taskVars, fired>>
    BY <1>10 DEF Routes, CreateRule, ToggleRule, DeleteRule, EditRule, Touched
  <2> QED BY <1>2, <2>1 DEF Ordered
<1>11. CASE Tick
  <2>1. /\ UNCHANGED <<stepBacks, last, current, minute, pc, fired>>
        /\ now' \in Minute /\ now <= now'
    BY <1>0, <1>11 DEF Tick, Minute
  <2>2. stepBacks' = 0 => last' <= now' /\ current' <= now'
    BY <1>0, <1>2, <2>1 DEF Minute
  <2>3. \A i \in RuleIds : \A f \in fired[i] :
          pc = "sleep" => f[2] <= IF last = NoMinute THEN now' ELSE last
    BY <1>0, <1>2, <2>1 DEF Minute
  <2> QED BY <1>2, <2>1, <2>2, <2>3 DEF Ordered
<1>12. ASSUME NEW t \in Minute, StepBack(t) PROVE Ordered'
  <2>1. /\ stepBacks' = stepBacks + 1
        /\ UNCHANGED <<last, current, minute, pc, fired, runNo>>
    BY <1>12 DEF StepBack
  <2>2. runNo = 0 /\ stepBacks' # 0
    BY <1>0, <2>1 DEF InOrder
  <2>3. \A i \in RuleIds : \A f \in fired[i] :
          pc = "sleep" => f[2] <= last
    BY <1>0, <2>2 DEF FiredBehind
  <2>4. \A i \in RuleIds : \A f \in fired[i] :
          pc = "sleep" => last # NoMinute
    BY <1>0, <2>3 DEF Minute
  <2> QED BY <1>2, <2>1, <2>2, <2>3, <2>4 DEF Ordered
<1>13. CASE UNCHANGED vars
  BY <1>2, <1>13 DEF vars, Ordered
<1> QED
  BY <1>3, <1>4, <1>5, <1>6, <1>7, <1>8, <1>9, <1>10, <1>11, <1>12, <1>13
     DEF Next, Task, Clock

LEMMA HistoryStays ==
  [Next]_vars => edited \subseteq edited' /\ unsaved \subseteq unsaved'
<1> SUFFICES ASSUME [Next]_vars
             PROVE  /\ edited \subseteq edited'
                    /\ unsaved \subseteq unsaved'
  OBVIOUS
<1> USE DEF histVars
<1>1. CASE Task
  BY <1>1 DEF Task, Wake, BeginTick, BeginTickBlind, EndTick, EndCycle,
     StartFire, FinishFire
<1>2. CASE Routes
  BY <1>2 DEF Routes, CreateRule, ToggleRule, DeleteRule, EditRule, Touched
<1>3. CASE Clock \/ Restart \/ UNCHANGED vars
  BY <1>3 DEF Clock, Tick, StepBack, Restart, vars
<1> QED BY <1>1, <1>2, <1>3 DEF Next

LEMMA SameNames ==
  ASSUME NEW r, NEW q, r.kind = q.kind, r.due = q.due, NEW m
  PROVE  Names(r, m) = Names(q, m)
  BY DEF Names

\* A step leaves the trigger of a rule alone that no client has touched.
LEMMA TriggerKept ==
  ASSUME OutcomeState, [Next]_vars,
         NEW i \in RuleIds, i < nextId, i \notin edited', Stored(i)'
  PROVE  /\ i \notin edited /\ Stored(i)
         /\ rules'[i].kind = rules[i].kind /\ rules'[i].due = rules[i].due
<1> USE DEF OutcomeState, clockVars, storeVars, taskVars, histVars
<1>0. /\ rules \in [RuleIds -> Rule] /\ nextId \in 1 .. MaxRules + 1
      /\ \A e \in due : e.id \in RuleIds
  BY DEF TypeInv, TypeOK, StoreType, TaskType
<1>00. SUFFICES /\ i \notin edited
                /\ rules'[i].kind = rules[i].kind
                /\ rules'[i].due = rules[i].due
  BY DEF Stored
<1>1. ASSUME UNCHANGED <<rules, edited>>
      PROVE  /\ i \notin edited
             /\ rules'[i].kind = rules[i].kind /\ rules'[i].due = rules[i].due
  BY <1>1
<1>2. CASE \/ Wake \/ BeginTickBlind \/ EndTick \/ EndCycle \/ Restart
           \/ Clock
  BY <1>1, <1>2 DEF Wake, BeginTickBlind, EndTick, EndCycle, Restart, Clock,
     Tick, StepBack
<1>3. ASSUME NEW lost \in SUBSET RuleIds, BeginTick(lost)
      PROVE  /\ i \notin edited
             /\ rules'[i].kind = rules[i].kind /\ rules'[i].due = rules[i].due
  <2>1. edited' = edited
    BY <1>3 DEF BeginTick
  <2>2. \/ rules'[i] = rules[i]
        \/ rules'[i] = [rules[i] EXCEPT !.enabled = FALSE, !.firedAt = minute,
                                        !.result  = "missed"]
    BY <1>3 DEF BeginTick
  <2> QED BY <1>0, <2>1, <2>2 DEF Rule
<1>4. ASSUME NEW e \in due, StartFire(e) PROVE UNCHANGED <<rules, edited>>
  BY <1>4 DEF StartFire
<1>5. ASSUME NEW e \in due, NEW saved \in BOOLEAN, FinishFire(e, saved)
      PROVE  /\ i \notin edited
             /\ rules'[i].kind = rules[i].kind /\ rules'[i].due = rules[i].due
  <2>1. \/ rules'[i] = rules[i]
        \/ rules'[i] = AfterFire(rules[i], e.once)
    BY <1>0, <1>5 DEF FinishFire
  <2>2. edited' = edited
    BY <1>5 DEF FinishFire
  <2> QED BY <1>0, <2>1, <2>2, AfterFireSays
<1>6. ASSUME NEW t \in Triggers, NEW on \in BOOLEAN,
             NEW readable \in BOOLEAN, CreateRule(t, on, readable)
      PROVE  rules'[i] = rules[i] /\ edited' = edited
  BY <1>0, <1>6 DEF CreateRule, RuleIds, Stored, NoRule
<1>7. ASSUME NEW j \in RuleIds,
             \/ ToggleRule(j) \/ DeleteRule(j)
             \/ \E t \in Triggers, on \in BOOLEAN : EditRule(j, t, on)
      PROVE  i \notin edited /\ rules'[i] = rules[i]
  <2>1. edited' = edited \cup {j}
    BY <1>7 DEF ToggleRule, DeleteRule, EditRule, Touched
  <2> QED
    BY <1>0, <1>7, <2>1 DEF ToggleRule, DeleteRule, EditRule
<1>8. CASE UNCHANGED vars
  BY <1>1, <1>8 DEF vars
<1> QED
  BY <1>1, <1>2, <1>3, <1>4, <1>5, <1>6, <1>7, <1>8 DEF Next, Task, Routes

\* What a step does to the firings, done or chosen, of a rule: it records the
\* one under way, chooses those of the minute, or adds nothing.
LEMMA FiringStep ==
  ASSUME OutcomeState, [Next]_vars
  PROVE  \/ /\ fired' = fired /\ due' \subseteq due
            /\ minute' = minute \/ due' = {}
         \/ /\ fired' = fired /\ due' = DueRules(minute)
            /\ minute' = minute /\ minute \in Minute
            /\ Begins
         \/ \E e \in due :
              /\ Finishes(e) /\ minute \in Minute /\ e.id \in RuleIds
              /\ fired' = [fired EXCEPT ![e.id] = @ \cup {<<runNo, minute>>}]
              /\ due' = due \ {e} /\ minute' = minute
<1> USE DEF OutcomeState, clockVars, storeVars, taskVars, histVars
<1>1. CASE \/ Wake \/ BeginTickBlind \/ EndTick \/ EndCycle \/ Restart
           \/ Clock
  BY <1>1 DEF Wake, BeginTickBlind, EndTick, EndCycle, Restart, Clock, Tick,
     StepBack, TypeInv, Ticking
<1>2. ASSUME NEW lost \in SUBSET RuleIds, BeginTick(lost)
      PROVE  /\ fired' = fired /\ due' = DueRules(minute)
             /\ minute' = minute /\ minute \in Minute
             /\ Begins
  <2>1. /\ pc = "scan" /\ minute <= current /\ fired' = fired
        /\ due' = DueRules(minute) /\ minute' = minute
    BY <1>2 DEF BeginTick
  <2>2. minute \in Minute
    BY <2>1 DEF TypeInv, TypeOK, TaskType, Ticking, Minute
  <2> QED BY <1>2, <2>1, <2>2 DEF Begins
<1>3. ASSUME NEW e \in due, StartFire(e)
      PROVE  fired' = fired /\ due' = due /\ minute' = minute
  BY <1>3 DEF StartFire
<1>4. ASSUME NEW e \in due, NEW saved \in BOOLEAN, FinishFire(e, saved)
      PROVE  /\ Finishes(e) /\ minute \in Minute /\ e.id \in RuleIds
             /\ fired' = [fired EXCEPT ![e.id] = @ \cup {<<runNo, minute>>}]
             /\ due' = due \ {e} /\ minute' = minute
  BY <1>4 DEF Finishes, FinishFire, TypeInv, TypeOK, TaskType, Ticking, Minute
<1>5. CASE Routes
  <2>1. UNCHANGED <<taskVars, fired>>
    BY <1>5 DEF Routes, CreateRule, ToggleRule, DeleteRule, EditRule, Touched
  <2> QED BY <2>1
<1>6. CASE UNCHANGED vars
  BY <1>6 DEF vars
<1> QED BY <1>1, <1>2, <1>3, <1>4, <1>5, <1>6 DEF Next, Task

LEMMA FromTriggerNext ==
  OutcomeState /\ FromTrigger /\ [Next]_vars => FromTrigger'
<1> SUFFICES ASSUME OutcomeState, FromTrigger, [Next]_vars,
                    NEW i \in RuleIds, i < nextId', i \notin edited', Stored(i)'
             PROVE  /\ \E t \in Triggers : /\ rules'[i].kind = t.kind
                                           /\ rules'[i].due = t.due
                    /\ \A f \in fired'[i] : Names(rules'[i], f[2])
                    /\ \A e \in due' : e.id = i => Names(rules'[i], minute')
  BY DEF FromTrigger
<1>0. /\ fired \in [RuleIds -> SUBSET (Nat \X Minute)]
      /\ rules \in [RuleIds -> Rule] /\ nextId \in 1 .. MaxRules + 1
  BY DEF OutcomeState, TypeInv, TypeOK, HistType, StoreType
<1>1. CASE i < nextId
  <2>1. /\ i \notin edited /\ Stored(i)
        /\ rules'[i].kind = rules[i].kind /\ rules'[i].due = rules[i].due
    BY <1>1, TriggerKept
  <2>2. /\ \E t \in Triggers : rules[i].kind = t.kind /\ rules[i].due = t.due
        /\ \A f \in fired[i] : Names(rules[i], f[2])
        /\ \A e \in due : e.id = i => Names(rules[i], minute)
    BY <1>1, <2>1 DEF FromTrigger
  <2>3. \A m : Names(rules'[i], m) = Names(rules[i], m)
    BY <2>1, SameNames
  <2>4. \A e \in DueRules(minute) : e.id = i => Names(rules[i], minute)
    BY DEF DueRules, RuleDueAt
  <2>5. /\ \A f \in fired'[i] : Names(rules[i], f[2])
        /\ \A e \in due' : e.id = i => Names(rules[i], minute')
    BY <1>0, <2>2, <2>4, FiringStep
  <2> QED BY <2>1, <2>2, <2>3, <2>5
<1>2. CASE ~(i < nextId)
  <2>1. PICK t \in Triggers, on \in BOOLEAN, readable \in BOOLEAN :
               CreateRule(t, on, readable)
    BY <1>2 DEF Next, Task, Wake, BeginTick, BeginTickBlind, EndTick, EndCycle,
       StartFire, FinishFire, Routes, ToggleRule, DeleteRule, EditRule,
       Touched, Clock,
       Tick, StepBack, Restart, vars, storeVars
  <2>2. /\ i = nextId
        /\ UNCHANGED <<fired, due>>
        /\ rules'[nextId] =
             [kind |-> t.kind, due |-> t.due, enabled |-> on,
              firedAt |-> NoMinute, result |-> "none"]
    BY <1>0, <1>2, <2>1 DEF CreateRule, RuleIds, taskVars
  <2>3. fired[i] = {} /\ \A e \in due : e.id # i
    BY <1>0, <2>2 DEF OutcomeState, OutcomeInv, FreshIds, RuleIds
  <2>4. rules'[i].kind = t.kind /\ rules'[i].due = t.due
    BY <1>0, <2>2
  <2> QED BY <2>2, <2>3, <2>4
<1> QED BY <1>1, <1>2

\* last_fired moves with a recorded firing only, or when a one-shot that never
\* fired is noted as missed.
LEMMA FiredAtStep ==
  ASSUME OutcomeState, FromTrigger, [Next]_vars,
         NEW i \in RuleIds, i < nextId, i \notin edited' \cup unsaved',
         Stored(i)', fired[i] # {}
  PROVE  \/ /\ rules'[i].firedAt = rules[i].firedAt
            /\ ~ \E e \in due : e.id = i /\ Finishes(e)
         \/ /\ rules'[i].firedAt = minute
            /\ \E e \in due : e.id = i /\ Finishes(e)
<1> USE DEF OutcomeState, clockVars, storeVars, taskVars, histVars
<1>0. /\ rules \in [RuleIds -> Rule] /\ nextId \in 1 .. MaxRules + 1
      /\ \A e \in due : e.id \in RuleIds
      /\ i \notin edited /\ Stored(i)
      /\ i \notin unsaved
  BY TriggerKept, HistoryStays DEF TypeInv, TypeOK, StoreType, TaskType
<1>1. ASSUME rules'[i] = rules[i], ~ \E e \in due : Finishes(e)
      PROVE  /\ rules'[i].firedAt = rules[i].firedAt
             /\ ~ \E e \in due : e.id = i /\ Finishes(e)
  BY <1>1
<1>2. CASE \E e \in due : Finishes(e)
  <2>1. PICK e \in due, saved \in BOOLEAN : FinishFire(e, saved)
    BY <1>2 DEF Finishes
  <2>2. \A f \in due : Finishes(f) => f = e
    <3>1. \A f \in due : Finishes(f) => e.id <= f.id /\ f.id <= e.id
      BY <2>1 DEF Finishes, FinishFire, IsNext
    <3> QED BY <1>0, <3>1 DEF FiredBehind, RuleIds
  <2>3. CASE e.id = i
    <3>1. saved
      BY <2>1, <2>3 DEF FinishFire
    <3>2. Finishes(e)
      BY <2>1 DEF Finishes
    <3>3. rules'[i] = AfterFire(rules[i], e.once)
      BY <1>0, <2>1, <2>3, <3>1 DEF FinishFire
    <3> QED BY <1>0, <2>3, <3>2, <3>3, AfterFireSays
  <2>4. CASE e.id # i
    BY <1>0, <2>1, <2>2, <2>4 DEF FinishFire
  <2> QED BY <2>3, <2>4
<1>3. ASSUME NEW lost \in SUBSET RuleIds, BeginTick(lost)
      PROVE  /\ rules'[i].firedAt = rules[i].firedAt
             /\ ~ \E e \in due : e.id = i /\ Finishes(e)
  <2>1. i \notin MissedOnce(minute)
    BY <1>0 DEF MissedOnce, OutcomeInv, Settled, OneShot
  <2>2. rules'[i] = rules[i] /\ pc = "scan"
    BY <1>3, <2>1 DEF BeginTick
  <2>3. ~ \E e \in due : Finishes(e)
    BY <2>2 DEF Finishes, FinishFire
  <2> QED BY <1>1, <2>2, <2>3
<1>4. CASE ~Begins /\ ~ \E e \in due : Finishes(e)
  <2>1. CASE \/ Wake \/ BeginTickBlind \/ EndTick \/ EndCycle
             \/ Restart \/ Clock \/ UNCHANGED vars
             \/ \E e \in due : StartFire(e)
    <3>1. rules' = rules
      BY <2>1 DEF Wake, BeginTickBlind, EndTick, EndCycle, Restart, Clock,
         Tick, StepBack, StartFire, vars
    <3> QED BY <1>1, <1>4, <3>1
  <2>2. ASSUME NEW t \in Triggers, NEW on \in BOOLEAN,
               NEW readable \in BOOLEAN, CreateRule(t, on, readable)
        PROVE  rules'[i] = rules[i]
    BY <1>0, <2>2 DEF CreateRule, RuleIds, Stored, NoRule
  <2>3. ASSUME NEW j \in RuleIds,
               \/ ToggleRule(j) \/ DeleteRule(j)
               \/ \E t \in Triggers, on \in BOOLEAN : EditRule(j, t, on)
        PROVE  rules'[i] = rules[i]
    <3>1. edited' = edited \cup {j}
      BY <2>3 DEF ToggleRule, DeleteRule, EditRule, Touched
    <3> QED BY <1>0, <2>3, <3>1 DEF ToggleRule, DeleteRule, EditRule
  <2> QED BY <1>1, <1>4, <2>1, <2>2, <2>3
         DEF Next, Task, Routes, Begins, Finishes
<1> QED BY <1>2, <1>3, <1>4 DEF Begins

\* _fired_at_this_label_recently looks at the latest firing only, and that is
\* enough: whatever label comes again, the latest firing was at it.
LEMMA LatestIsEnough ==
  ASSUME TypeInv, Ordered, FromTrigger, Spaced, InOrder,
         pc = "scan", minute <= current, minute \in Minute,
         NEW i \in RuleIds \ (edited \cup unsaved), i < nextId, Stored(i),
         RuleDueAt(rules[i], minute),
         ~FiredAtThisLabelRecently(rules[i], minute),
         NEW f \in fired[i]
  PROVE  ~Again(f[2], minute)
<1>0. \A g \in fired[i] : g[2] \in Minute
  BY DEF TypeInv, TypeOK, HistType
<1>1. SUFFICES ASSUME Again(f[2], minute) PROVE FALSE
  OBVIOUS
<1>2. PICK g \in fired[i] : g[2] = rules[i].firedAt
  BY DEF Spaced
<1>3. f[2] <= g[2] /\ g[2] <= minute /\ ~Again(f[2], g[2])
  BY <1>2 DEF Spaced, Ordered
<1>4. 0 < minute - g[2] /\ minute - g[2] <= RepeatWindow
  BY <1>0, <1>1, <1>3 DEF Again, Minute
<1>5. Names(rules[i], g[2]) /\ Names(rules[i], minute)
  BY DEF FromTrigger, RuleDueAt
<1>6. PICK t \in Triggers : rules[i].kind = t.kind /\ rules[i].due = t.due
  BY DEF FromTrigger
<1>7. Names(t, g[2]) /\ Names(t, minute)
  BY <1>5, <1>6, SameNames
<1>8. Label[g[2]] = Label[minute]
  BY <1>0, <1>4, <1>7, RepeatAssumption
<1>9. rules[i].firedAt # NoMinute
  BY <1>0, <1>2 DEF Minute
<1> QED BY <1>2, <1>4, <1>8, <1>9 DEF FiredAtThisLabelRecently

LEMMA SpacedNext ==
  OutcomeState /\ Ordered /\ FromTrigger /\ Spaced /\ [Next]_vars => Spaced'
<1> SUFFICES ASSUME OutcomeState, Ordered, FromTrigger, Spaced, [Next]_vars,
                    InOrder', NEW i \in RuleIds,
                    i \notin edited' \cup unsaved'
             PROVE  /\ Stored(i)' =>
                         \A f \in fired'[i] : f[2] <= rules'[i].firedAt
                    /\ Stored(i)' /\ fired'[i] # {} =>
                         \E f \in fired'[i] : f[2] = rules'[i].firedAt
                    /\ \A f, g \in fired'[i] : ~Again(f[2], g[2])
                    /\ \A e \in due' : e.id = i =>
                         \A f \in fired'[i] : ~Again(f[2], minute')
  BY DEF Spaced, Again
<1>0. /\ fired \in [RuleIds -> SUBSET (Nat \X Minute)]
      /\ InOrder
      /\ \A e \in due : e.id \in RuleIds /\ e.id < nextId
      /\ i >= nextId => fired[i] = {}
      /\ nextId \in Nat
  BY InOrderWas DEF OutcomeState, TypeInv, TypeOK, HistType, TaskType,
     StoreType, OutcomeInv, FreshIds
<1>1. CASE fired'[i] = {}
  BY <1>1
<1>2. ASSUME fired'[i] # {} PROVE i < nextId
  <2>1. i >= nextId => \A e \in due : e.id # i
    BY <1>0 DEF RuleIds
  <2>2. i >= nextId => fired'[i] = fired[i]
    BY <1>0, <2>1, FiringStep
  <2> QED BY <1>0, <1>2, <2>2 DEF RuleIds
<1>3. ASSUME i < nextId
      PROVE  /\ i \notin edited \cup unsaved
             /\ Stored(i) => \A f \in fired[i] : f[2] <= rules[i].firedAt
             /\ Stored(i) /\ fired[i] # {} =>
                  \E f \in fired[i] : f[2] = rules[i].firedAt
             /\ \A f, g \in fired[i] : ~Again(f[2], g[2])
             /\ \A e \in due : e.id = i =>
                  \A f \in fired[i] : ~Again(f[2], minute)
             /\ Stored(i)' => Stored(i)
  BY <1>0, <1>3, TriggerKept, HistoryStays DEF Spaced
<1>4. ASSUME fired' = fired, i < nextId, fired[i] # {}, Stored(i)'
      PROVE  rules'[i].firedAt = rules[i].firedAt
  <2>1. ASSUME NEW e \in due, Finishes(e), e.id = i PROVE FALSE
    <3>1. fired[i] = fired[i] \cup {<<runNo, minute>>}
      BY <1>0, <1>4, <2>1 DEF Finishes, FinishFire
    <3> QED BY <2>1, <3>1 DEF OutcomeState, FiredBehind
  <2> QED BY <1>4, <2>1, FiredAtStep
<1>5. CASE /\ i < nextId /\ fired'[i] # {}
           /\ fired' = fired /\ due' \subseteq due
           /\ minute' = minute \/ due' = {}
  <2>1. Stored(i)' => /\ \A f \in fired'[i] : f[2] <= rules'[i].firedAt
                      /\ \E f \in fired'[i] : f[2] = rules'[i].firedAt
    BY <1>3, <1>4, <1>5
  <2>2. \A e \in due' : e.id = i =>
          \A f \in fired'[i] : ~Again(f[2], minute')
    BY <1>3, <1>5
  <2> QED BY <1>3, <1>5, <2>1, <2>2
<1>6. CASE /\ i < nextId /\ fired'[i] # {}
           /\ fired' = fired /\ due' = DueRules(minute)
           /\ minute' = minute /\ minute \in Minute /\ Begins
  <2>1. pc = "scan" /\ minute <= current
    BY <1>6 DEF Begins, BeginTick
  <2>2. ASSUME NEW e \in due', e.id = i, NEW f \in fired[i]
        PROVE  ~Again(f[2], minute)
    <3>1. /\ RuleDueAt(rules[i], minute)
          /\ ~FiredAtThisLabelRecently(rules[i], minute)
      BY <1>6, <2>2 DEF DueRules
    <3>2. Stored(i)
      <4>1. rules[i].enabled
        BY <3>1 DEF RuleDueAt
      <4> QED BY <3>1, <4>1 DEF RuleDueAt, Names, Stored
    <3>3. i \in RuleIds \ (edited \cup unsaved)
      BY <1>3, <1>6
    <3> QED BY <1>0, <1>6, <2>1, <2>2, <3>1, <3>2, <3>3, LatestIsEnough
            DEF OutcomeState
  <2>3. Stored(i)' => /\ \A f \in fired'[i] : f[2] <= rules'[i].firedAt
                      /\ \E f \in fired'[i] : f[2] = rules'[i].firedAt
    BY <1>3, <1>4, <1>6
  <2> QED BY <1>3, <1>6, <2>2, <2>3
<1>7. ASSUME i < nextId, fired'[i] # {},
             NEW e \in due, NEW saved \in BOOLEAN, FinishFire(e, saved),
             minute \in Minute,
             fired' = [fired EXCEPT ![e.id] = @ \cup {<<runNo, minute>>}],
             due' = due \ {e}, minute' = minute
      PROVE  /\ Stored(i)' => \A f \in fired'[i] : f[2] <= rules'[i].firedAt
             /\ Stored(i)' => \E f \in fired'[i] : f[2] = rules'[i].firedAt
             /\ \A f, g \in fired'[i] : ~Again(f[2], g[2])
             /\ \A d \in due' : d.id = i =>
                  \A f \in fired'[i] : ~Again(f[2], minute')
  <2>1. CASE e.id = i
    <3>1. fired'[i] = fired[i] \cup {<<runNo, minute>>}
      BY <1>0, <1>7, <2>1
    <3>2. ASSUME Stored(i)' PROVE rules'[i].firedAt = minute
      <4>1. saved
        BY <1>7, <2>1 DEF FinishFire
      <4>2. Stored(i) /\ rules[i] \in Rule
        BY <1>3, <1>7, <3>2 DEF OutcomeState, TypeInv, TypeOK, StoreType
      <4>3. rules'[i] = AfterFire(rules[i], e.once)
        BY <1>7, <2>1, <4>1, <4>2 DEF FinishFire, OutcomeState, TypeInv, TypeOK,
           StoreType
      <4> QED BY <4>2, <4>3, AfterFireSays
    <3>3. \A f \in fired[i] : f[2] <= minute /\ f[2] \in Minute
      BY <1>0, <1>7 DEF FinishFire, Ordered
    <3>4. \A f \in fired[i] : ~Again(f[2], minute) /\ ~Again(minute, f[2])
      BY <1>3, <1>7, <2>1, <3>3 DEF Again, Minute
    <3>5. ~Again(minute, minute)
      BY <1>7 DEF Again, Minute
    <3>6. \A d \in due' : d.id # i
      BY <1>7, <2>1 DEF OutcomeState, FiredBehind
    <3>7. \A f \in fired'[i] : f \in fired[i] \/ f[2] = minute
      BY <3>1
    <3>8. ASSUME Stored(i)' PROVE \E f \in fired'[i] : f[2] = rules'[i].firedAt
      <4>1. <<runNo, minute>> \in fired'[i]
        BY <3>1
      <4>2. <<runNo, minute>>[2] = rules'[i].firedAt
        BY <3>2, <3>8
      <4> QED BY <4>1, <4>2, Zenon
    <3>9. Stored(i)' => \A f \in fired'[i] : f[2] <= rules'[i].firedAt
      BY <1>7, <3>2, <3>3, <3>7 DEF Minute
    <3>10. \A f, g \in fired'[i] : ~Again(f[2], g[2])
      BY <1>3, <1>7, <3>4, <3>5, <3>7
    <3> QED BY <3>6, <3>8, <3>9, <3>10
  <2>2. CASE e.id # i
    <3>1. fired'[i] = fired[i]
      BY <1>0, <1>7, <2>2
    <3>2. \A d \in due : Finishes(d) => d = e
      <4>1. \A d \in due : Finishes(d) => e.id <= d.id /\ d.id <= e.id
        BY <1>7 DEF Finishes, FinishFire, IsNext
      <4> QED BY <1>0, <1>7, <4>1 DEF OutcomeState, FiredBehind, RuleIds
    <3>3. Stored(i)' => rules'[i].firedAt = rules[i].firedAt
      BY <1>7, <2>2, <3>1, <3>2, FiredAtStep
    <3>4. \A d \in due' : d.id = i =>
            \A f \in fired'[i] : ~Again(f[2], minute')
      BY <1>3, <1>7, <3>1
    <3> QED BY <1>3, <1>7, <3>1, <3>3, <3>4
  <2> QED BY <2>1, <2>2
<1>8. CASE /\ i < nextId /\ fired'[i] # {}
           /\ \E e \in due :
                /\ Finishes(e) /\ minute \in Minute /\ e.id \in RuleIds
                /\ fired' = [fired EXCEPT ![e.id] = @ \cup {<<runNo, minute>>}]
                /\ due' = due \ {e} /\ minute' = minute
  BY <1>7, <1>8 DEF Finishes
<1> QED BY <1>1, <1>2, <1>5, <1>6, <1>8, FiringStep

\* "DST fall-back repeat of an already-fired label": a rule left alone does
\* not fire at it again, across restarts as well, as long as its note is kept.
THEOREM NoLabelRepeatHolds == Spec => NoLabelRepeat
<1>1. Spaced =>
        [\A i \in RuleIds \ (edited \cup unsaved) :
           InOrder /\ Starts(i) =>
             ~\E f \in fired[i] : /\ 0 < minute - f[2]
                                  /\ minute - f[2] <= RepeatWindow
                                  /\ Label[f[2]] = Label[minute]]_vars
  BY DEF Spaced, Starts, Again
<1>2. Init => Ordered /\ FromTrigger /\ Spaced
  <2>1. Init => Ordered
    BY DEF Init, Ordered, Minute
  <2>2. Init => FromTrigger
    BY DEF Init, FromTrigger, RuleIds
  <2>3. Init => Spaced
    BY DEF Init, Spaced
  <2> QED BY <2>1, <2>2, <2>3
<1>3. Init => OutcomeState
  BY TypeInit, FiredInit, OutcomeInit DEF OutcomeState
<1>4. OutcomeState /\ [Next]_vars => OutcomeState'
  BY TypeNext, FiredNext, OutcomeNext DEF OutcomeState
<1>5. OutcomeState => TypeInv /\ FiredBehind
  BY DEF OutcomeState
<1> QED
  BY <1>1, <1>2, <1>3, <1>4, <1>5, OrderedNext, FromTriggerNext, SpacedNext,
     PTL DEF Spec, NoLabelRepeat

=============================================================================
