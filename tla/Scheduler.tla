------------------------------ MODULE Scheduler ------------------------------
(***************************************************************************)
(* The server-side schedule rules of KasaBuena: the JSON schedule store    *)
(* (api/schedule_store.py), the routes that edit it                        *)
(* (api/routers/schedules.py) and the background task that fires the rules *)
(* (api/scheduler.py).                                                     *)
(*                                                                         *)
(* All of it runs on ONE asyncio event loop, so a step here is what runs   *)
(* between two suspension points.  The scheduler task suspends in exactly  *)
(* two places: asleep until the next minute (pc = "sleep") and while it    *)
(* awaits the device I/O of fire_rule (pc = "fire").  Only there can a     *)
(* request handler run; "scan" and "run" are on the processor.             *)
(*                                                                         *)
(* Time is counted in minutes.  An instant m has a wall-clock label        *)
(* Label[m], the local date and time written as one number; Label is not   *)
(* injective where the clocks fall back and has a hole where they spring   *)
(* forward.                                                                *)
(*                                                                         *)
(* JsonDocumentStore (api/json_store.py) reads a file it cannot read as an *)
(* empty one and swallows a write that fails.  Each of the scheduler's own *)
(* accesses may fail so, and the reading of a file to which a rule is      *)
(* appended; a client's other failing request leaves everything as it was. *)
(***************************************************************************)
EXTENDS Integers, FiniteSets

CONSTANTS
  Horizon,       \* bound: the last instant the clock reaches
  Label,         \* Label[m]: the local wall-clock label of instant m
  Triggers,      \* the triggers a client may give a rule
  MaxRules,      \* bound: rules ever created (ids are fresh, never reused)
  MaxCatchup,    \* _MAX_CATCHUP_MINUTES
  RepeatWindow,  \* the two hours of _fired_at_this_label_recently
  MaxEdited,     \* bound: rules that clients edit, toggle or delete
  MaxFaults      \* bound: restarts of the process, backward corrections of the
                 \* system clock and faults of the schedule file, together

Minute  == 0 .. Horizon
RuleIds == 1 .. MaxRules
NoMinute == -1

Kinds == {"fixed_time", "sun", "once"}

(***************************************************************************)
(* A trigger is its kind and the minutes it names: wall-clock labels for a *)
(* fixed_time rule (its HH:MM on its weekdays) and for a one-shot (its     *)
(* single `at'), instants for a sunrise or sunset rule (solar.py).         *)
(***************************************************************************)
Trigger == [kind : Kinds, due : SUBSET Nat]

ASSUME BoundsAssumption ==
  /\ Horizon \in Nat /\ MaxRules \in Nat
  /\ MaxCatchup \in Nat /\ RepeatWindow \in Nat
  /\ MaxFaults \in Nat /\ MaxEdited \in Nat

ASSUME LabelAssumption == Label \in [Minute -> Nat]

ASSUME TriggersAssumption ==
  /\ Triggers \subseteq Trigger
  /\ \A t \in Triggers : t.kind = "once" => \E l \in t.due : t.due = {l}

\* Does a trigger, or a rule, name instant m?
Names(t, m) ==
  \/ t.kind \in {"fixed_time", "once"} /\ Label[m] \in t.due
  \/ t.kind = "sun" /\ m \in t.due

\* A rule has one time of day: two of its minutes within the two hours bear
\* the same label, that of the hour the clocks repeat.
ASSUME RepeatAssumption ==
  \A t \in Triggers, m \in Minute, n \in Minute :
    Names(t, m) /\ Names(t, n) /\ 0 < n - m /\ n - m <= RepeatWindow
      => Label[m] = Label[n]

Rule == [kind    : Kinds \cup {"none"}, due : SUBSET Nat, enabled : BOOLEAN,
         firedAt : Minute \cup {NoMinute}, result : {"none", "ran", "missed"}]

\* An id that is not in the file: not created yet, or deleted.
NoRule == [kind |-> "none", due |-> {}, enabled |-> FALSE,
           firedAt |-> NoMinute, result |-> "none"]

VARIABLES
  now,        \* the system clock
  stepBacks,  \* how often it was set back
  rules,      \* the schedule file
  nextId,     \* the next fresh id
  ioFaults,   \* how often the schedule file could not be read or written
  pc,         \* where the scheduler task is
  rested,     \* a minute boundary has passed since the task went to sleep
  last,       \* last_minute, the cursor
  current,    \* the minute read when this cycle woke up
  minute,     \* the minute being evaluated, or the next one to evaluate
  due,        \* what is left of due_rules, as read at the start of the tick
  runNo,      \* which run of the process this is
  \* history, read by the properties only
  fired,      \* fired[i]: <<run, minute>> of each completed firing of rule i
  edited,     \* rules a client changed after creating them
  early,      \* one-shots accepted while their label lay ahead of the cursor
  gapSeen,    \* this process once woke more than MaxCatchup minutes late
  unsaved,    \* rules that fired and whose outcome was never written
  unread      \* rules due at a minute whose tick could not read the file

clockVars == <<now, stepBacks>>
storeVars == <<rules, nextId, ioFaults>>
taskVars  == <<pc, rested, last, current, minute, due, runNo>>
histVars  == <<fired, edited, early, gapSeen, unsaved, unread>>
vars == <<clockVars, storeVars, taskVars, histVars>>

-----------------------------------------------------------------------------
(* Pure decisions *)

Stored(i) == rules[i].kind # "none"

\* _once_target_hhmm: the single label a one-shot names.
OnceTarget(r) == CHOOSE l \in r.due : TRUE

\* rule_due_at: does rule r fire during instant m?
RuleDueAt(r, m) == r.enabled /\ Names(r, m)

\* Mutant: the sign of the difference is lost.
FiredAtThisLabelSoon(r, m) ==
  /\ r.firedAt # NoMinute
  /\ 0 < r.firedAt - m
  /\ r.firedAt - m <= RepeatWindow
  /\ Label[r.firedAt] = Label[m]

\* The previous firing at the same wall-clock label, seen again when the
\* clocks fall back.
FiredAtThisLabelRecently(r, m) ==
  /\ r.firedAt # NoMinute
  /\ 0 < m - r.firedAt
  /\ m - r.firedAt <= RepeatWindow
  /\ Label[r.firedAt] = Label[m]

\* Mutant: only a one-shot that ran before counts as missed.
MissedOnceThatRan(m) ==
  {i \in RuleIds : /\ rules[i].enabled
                   /\ rules[i].kind = "once"
                   /\ rules[i].firedAt # NoMinute
                   /\ OnceTarget(rules[i]) < Label[m]}

\* _missed_once_rules: armed one-shots whose label already lies behind.
MissedOnce(m) ==
  {i \in RuleIds : /\ rules[i].enabled
                   /\ rules[i].kind = "once"
                   /\ OnceTarget(rules[i]) < Label[m]}

\* The rules run_tick will fire at m, with the kind its snapshot gives them.
DueRules(m) ==
  {[id |-> i, once |-> rules[i].kind = "once"] :
     i \in {j \in RuleIds : /\ RuleDueAt(rules[j], m)
                            /\ ~FiredAtThisLabelRecently(rules[j], m)}}

\* Mutant: a gap of exactly MaxCatchup minutes is no longer caught up.
FirstMinuteStrict(c, t) ==
  IF c = NoMinute THEN t
  ELSE IF t - c <= 0 THEN t + 1
  ELSE IF t - c >= MaxCatchup THEN t
  ELSE c + 1

\* minutes_to_evaluate: the minutes of a wake-up at t are the interval from
\* FirstMinute(c, t) through t, empty when the cursor c already covers t.
FirstMinute(c, t) ==
  IF c = NoMinute THEN t
  ELSE IF t - c <= 0 THEN t + 1
  ELSE IF t - c > MaxCatchup THEN t
  ELSE c + 1

\* Rules are handled in the order of the file, the order of creation.
IsNext(e) == e \in due /\ \A f \in due : e.id <= f.id

-----------------------------------------------------------------------------
Init ==
  /\ now = 0
  /\ stepBacks = 0
  /\ rules = [i \in RuleIds |-> NoRule]
  /\ nextId = 1
  /\ ioFaults = 0
  /\ pc = "sleep"
  /\ rested = TRUE              \* the first cycle runs at once
  /\ last = NoMinute
  /\ current = NoMinute
  /\ minute = NoMinute
  /\ due = {}
  /\ runNo = 0
  /\ fired = [i \in RuleIds |-> {}]
  /\ edited = {}
  /\ early = {}
  /\ gapSeen = FALSE
  /\ unsaved = {}
  /\ unread = {}

(* The faults *)

\* Bound: MaxFaults in all, and none in the last minute.
MayFail == runNo + stepBacks + ioFaults < MaxFaults /\ now < Horizon

\* An access to the schedule file, by which the model counts the failing ones.
FileAccess(ok) ==
  \/ ok /\ UNCHANGED ioFaults
  \/ ~ok /\ MayFail /\ ioFaults' = ioFaults + 1

-----------------------------------------------------------------------------
(* The scheduler task *)

\* run_scheduler, top of the loop: read the clock, choose the minutes.
Wake ==
  /\ pc = "sleep"
  /\ rested
  /\ pc' = "scan"
  /\ current' = now
  /\ minute' = FirstMinute(last, now)
  /\ gapSeen' = (gapSeen \/ (last # NoMinute /\ now - last > MaxCatchup))
  /\ UNCHANGED <<clockVars, storeVars, rested, last, due, runNo,
                 fired, edited, early, unsaved, unread>>

\* run_tick up to its first await: one reading of the file, the missed
\* one-shots disabled and noted, the due rules chosen from that reading.  The
\* file as written may fail to take the notes of the rules in `lost'.
BeginTick(lost) ==
  /\ pc = "scan"
  /\ minute <= current
  /\ pc' = "run"
  /\ lost \subseteq MissedOnce(minute)
  /\ due' = DueRules(minute)
  /\ FileAccess(lost = {})
  /\ rules' = [i \in RuleIds |->
                 IF i \in MissedOnce(minute) \ lost
                   THEN [rules[i] EXCEPT !.enabled = FALSE,
                                         !.firedAt = minute,
                                         !.result  = "missed"]
                   ELSE rules[i]]
  /\ UNCHANGED <<clockVars, nextId, rested, last, current, minute, runNo,
                 histVars>>

\* The same tick when list_rules cannot read the file: no rule to fire and
\* none to note.
BeginTickBlind ==
  /\ pc = "scan"
  /\ minute <= current
  /\ pc' = "run"
  /\ FileAccess(FALSE)
  /\ unread' = unread \cup {e.id : e \in DueRules(minute)}
  /\ UNCHANGED <<clockVars, rules, nextId, rested, last, current, minute, due,
                 runNo, fired, edited, early, gapSeen, unsaved>>

\* run_tick calls fire_rule for the next due rule and suspends on its I/O.
StartFire(e) ==
  /\ pc = "run"
  /\ IsNext(e)
  /\ pc' = "fire"
  /\ UNCHANGED <<clockVars, storeVars, rested, last, current, minute, due,
                 runNo, histVars>>

\* Mutant: a one-shot that ran stays armed.
AfterFireStillArmed(r, once) ==
  [r EXCEPT !.firedAt = minute, !.result = "ran"]

\* What ScheduleStore.update_rule writes after a firing: merged into whatever
\* the file holds by now, nothing when the rule is gone.
AfterFire(r, once) ==
  [r EXCEPT !.firedAt = minute,
            !.result  = "ran",
            !.enabled = r.enabled /\ ~once]

\* fire_rule returns (it never raises) and the outcome is recorded, if the
\* file can be read and written.
FinishFire(e, saved) ==
  /\ pc = "fire"
  /\ IsNext(e)
  /\ pc' = "run"
  /\ due' = due \ {e}
  /\ FileAccess(saved)
  /\ rules' = IF saved /\ Stored(e.id)
                THEN [rules EXCEPT ![e.id] = AfterFire(@, e.once)]
                ELSE rules
  /\ fired' = [fired EXCEPT ![e.id] = @ \cup {<<runNo, minute>>}]
  /\ unsaved' = IF saved THEN unsaved ELSE unsaved \cup {e.id}
  /\ UNCHANGED <<clockVars, nextId, rested, last, current, minute, runNo,
                 edited, early, gapSeen, unread>>

\* Mutant: the cycle steps over a minute.
EndTickSkips ==
  /\ pc = "run"
  /\ due = {}
  /\ pc' = "scan"
  /\ minute' = minute + 2
  /\ UNCHANGED <<clockVars, storeVars, rested, last, current, due, runNo,
                 histVars>>

\* run_tick returns and the loop goes on to the next minute of the cycle.
EndTick ==
  /\ pc = "run"
  /\ due = {}
  /\ pc' = "scan"
  /\ minute' = minute + 1
  /\ UNCHANGED <<clockVars, storeVars, rested, last, current, due, runNo,
                 histVars>>

\* Mutant: the cursor follows the clock backwards.
EndCycleFollows ==
  /\ pc = "scan"
  /\ minute > current
  /\ pc' = "sleep"
  /\ rested' = FALSE
  /\ last' = current
  /\ current' = NoMinute
  /\ minute' = NoMinute
  /\ UNCHANGED <<clockVars, storeVars, due, runNo, histVars>>

\* No minute left: move the cursor, forward only, and sleep.
EndCycle ==
  /\ pc = "scan"
  /\ minute > current
  /\ pc' = "sleep"
  /\ rested' = FALSE
  /\ last' = IF last = NoMinute \/ current > last THEN current ELSE last
  /\ current' = NoMinute         \* locals of the cycle, dead from here on
  /\ minute' = NoMinute
  /\ UNCHANGED <<clockVars, storeVars, due, runNo, histVars>>

\* The process stops at any point and starts again with no cursor.
Restart ==
  /\ MayFail
  /\ runNo' = runNo + 1
  /\ pc' = "sleep"
  /\ rested' = TRUE
  /\ last' = NoMinute
  /\ current' = NoMinute
  /\ minute' = NoMinute
  /\ due' = {}
  /\ gapSeen' = FALSE
  /\ UNCHANGED <<clockVars, storeVars, fired, edited, early, unsaved, unread>>

-----------------------------------------------------------------------------
(* The routes *)

\* A handler runs while the task is suspended, and only once the task has
\* started: lifespan creates it before the server accepts a request.
\* Bound: clients stop editing when the clock stops.
HandlerRuns ==
  /\ pc = "fire" \/ (pc = "sleep" /\ last # NoMinute)
  /\ now < Horizon

\* _reject_unfireable_rule lets a one-shot through from this minute on.
Fireable(t) == t.kind = "once" => OnceTarget(t) >= Label[now]

\* The first minute the task has not begun.
NextMinute == IF pc = "fire" THEN minute + 1 ELSE last + 1

\* The labels from minute n on come to the one-shot's label without passing
\* it: no clock change in between jumps over it, and no minute from before the
\* clocks fell back is left to evaluate.
StillAhead(r, n) ==
  \E m \in Minute : /\ n <= m /\ Label[m] = OnceTarget(r)
                    /\ \A k \in n .. m - 1 : Label[k] < OnceTarget(r)

\* create_rule appends to what it reads: to nothing, when the file cannot be
\* read, and then the new rule is the only one left.
CreateRule(t, on, readable) ==
  /\ HandlerRuns
  /\ nextId \in RuleIds
  /\ Fireable(t)
  /\ FileAccess(readable)
  /\ rules' = [i \in RuleIds |->
                 IF i = nextId
                   THEN [kind |-> t.kind, due |-> t.due, enabled |-> on,
                         firedAt |-> NoMinute, result |-> "none"]
                 ELSE IF readable THEN rules[i] ELSE NoRule]
  /\ nextId' = nextId + 1
  /\ early' = IF t.kind = "once" /\ StillAhead(t, NextMinute)
                THEN early \cup {nextId} ELSE early
  /\ UNCHANGED <<clockVars, taskVars, fired, edited, gapSeen, unsaved, unread>>

Touched(i) ==
  /\ Cardinality(edited \cup {i}) <= MaxEdited
  /\ edited' = edited \cup {i}
  /\ UNCHANGED <<clockVars, nextId, ioFaults, taskVars, fired, early, gapSeen,
                 unsaved, unread>>

\* PATCH of `enabled' alone: not checked against the clock.
ToggleRule(i) ==
  /\ HandlerRuns
  /\ Stored(i)
  /\ rules' = [rules EXCEPT ![i].enabled = ~@]
  /\ Touched(i)

\* PATCH of the trigger, with or without `enabled'.
EditRule(i, t, on) ==
  /\ HandlerRuns
  /\ Stored(i)
  /\ Fireable(t)
  /\ rules' = [rules EXCEPT ![i] = [@ EXCEPT !.kind = t.kind,
                                              !.due = t.due,
                                              !.enabled = on]]
  /\ Touched(i)

DeleteRule(i) ==
  /\ HandlerRuns
  /\ Stored(i)
  /\ rules' = [rules EXCEPT ![i] = NoRule]
  /\ Touched(i)

-----------------------------------------------------------------------------
(* The clock *)

\* Bound: the minute Horizon lasts for ever, the loop keeps waking in it.
Tick ==
  /\ now' = IF now < Horizon THEN now + 1 ELSE now
  /\ rested' = (rested \/ pc = "sleep")
  /\ UNCHANGED <<stepBacks, storeVars, pc, last, current, minute, due, runNo,
                 histVars>>

\* A backward correction of the system clock.
StepBack(t) ==
  /\ MayFail
  /\ t < now
  /\ now' = t
  /\ stepBacks' = stepBacks + 1
  /\ UNCHANGED <<storeVars, taskVars, histVars>>

-----------------------------------------------------------------------------
Task ==
  \/ Wake \/ EndTick \/ EndCycle
  \/ \E lost \in SUBSET RuleIds : BeginTick(lost)
  \/ BeginTickBlind
  \/ \E e \in due : StartFire(e)
  \/ \E e \in due, saved \in BOOLEAN : FinishFire(e, saved)

Routes ==
  \/ \E t \in Triggers, on \in BOOLEAN, readable \in BOOLEAN :
       CreateRule(t, on, readable)
  \/ \E i \in RuleIds : ToggleRule(i) \/ DeleteRule(i)
  \/ \E i \in RuleIds, t \in Triggers, on \in BOOLEAN : EditRule(i, t, on)

Clock == Tick \/ \E t \in Minute : StepBack(t)

Next == Task \/ Routes \/ Clock \/ Restart

Spec == Init /\ [][Next]_vars

\* The event loop keeps running the task, and device I/O ends (python-kasa
\* times out); the clock advances.  Clients promise nothing.
FairSpec == Spec /\ WF_vars(Task) /\ WF_vars(Tick)

-----------------------------------------------------------------------------
(* Properties *)

ClockType == now \in Minute /\ stepBacks \in Nat
StoreType ==
  /\ rules \in [RuleIds -> Rule]
  /\ nextId \in 1 .. MaxRules + 1
  /\ ioFaults \in Nat
TaskType ==
  /\ pc \in {"sleep", "scan", "run", "fire"}
  /\ rested \in BOOLEAN
  /\ last \in Minute \cup {NoMinute}
  /\ current \in Minute \cup {NoMinute}
  /\ minute \in NoMinute .. Horizon + 1
  /\ due \subseteq [id : RuleIds, once : BOOLEAN]
  /\ runNo \in Nat
HistType ==
  /\ fired \in [RuleIds -> SUBSET (Nat \X Minute)]
  /\ edited \subseteq RuleIds
  /\ early \subseteq RuleIds
  /\ gapSeen \in BOOLEAN
  /\ unsaved \subseteq RuleIds
  /\ unread \subseteq RuleIds

TypeOK == ClockType /\ StoreType /\ TaskType /\ HistType

\* This step hands rule i to fire_rule.
Starts(i) == \E e \in due : e.id = i /\ StartFire(e)

\* One run of the process never fires a rule twice for the same minute,
\* whatever the clients edit while it fires and however the clock is set
\* back (scheduler.py: "nor double-fired (the cursor only moves forward)").
NoRefire ==
  [][\A i \in RuleIds : Starts(i) => <<runNo, minute>> \notin fired[i]]_vars

\* No minute was evaluated after a later one.  The cursor sees to that in one
\* run, whatever the clock does, and the clock does across restarts.
InOrder == stepBacks = 0 \/ runNo = 0

\* When the clocks fall back, a rule nobody edited does not fire again at the
\* repeated label, not even when the process restarted in between.  The note
\* in the file is what it is recognised by, so nothing is claimed of a rule
\* whose note was once lost.
NoLabelRepeat ==
  [][\A i \in RuleIds \ (edited \cup unsaved) :
       InOrder /\ Starts(i) =>
         ~\E f \in fired[i] : /\ 0 < minute - f[2]
                              /\ minute - f[2] <= RepeatWindow
                              /\ Label[f[2]] = Label[minute]]_vars

\* A one-shot nobody edited has one outcome, across restarts too: it ran
\* once, or it was missed, never twice and never both.  A file that cannot be
\* read, or that does not take the note of a missed one, changes nothing about
\* that; only a one-shot that ran while its outcome could not be written may
\* run again or be noted as missed.  (A firing cut short by the end of the
\* process has no outcome.)
OneOutcome ==
  \A i \in RuleIds \ (edited \cup unsaved) :
    rules[i].kind = "once" =>
      /\ Cardinality(fired[i]) <= 1
      /\ rules[i].result = "missed" => fired[i] = {}

Disturbed == runNo > 0 \/ stepBacks > 0 \/ gapSeen

\* A one-shot whose label lay ahead when it was accepted and that was left
\* alone is never marked missed by a process that was neither restarted nor
\* suspended beyond the catch-up and whose clock never went back: a short
\* overrun catches up, and no label is evaluated out of turn.  The file fails
\* it in two ways only: it could not be read in the very minute of the label,
\* or the one-shot ran and its outcome was not written.
PunctualOnceRuns ==
  \A i \in early \ (edited \cup unsaved \cup unread) :
    rules[i].result = "missed" => Disturbed

\* No one-shot stays armed for a minute that will not come again.
OnceSettles ==
  \A i \in RuleIds :
    (rules[i].kind = "once" /\ rules[i].enabled) ~>
      (~rules[i].enabled \/ rules[i].kind # "once"
                         \/ OnceTarget(rules[i]) >= Label[Horizon])

=============================================================================
