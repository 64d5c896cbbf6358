------------------------------- MODULE Energy -------------------------------
(***************************************************************************)
(* The energy recorder and the history it keeps (api/energy_history.py),   *)
(* reading local plugs and one cloud strip through the registry            *)
(* (read_energy_snapshot), and the totals served from the history.         *)
(*                                                                         *)
(* Each cycle asks every metered device at once, stamps each answer with   *)
(* the time at which it arrives, writes the answers in one batch, prunes   *)
(* at most daily, and sleeps. A plug whose refresh fails is recorded with  *)
(* what its object last read. Only the rows survive a restart.             *)
(***************************************************************************)
EXTENDS StripEnergy

CONSTANTS
  Strip,       \* the cloud strip, as a device of the history
  Room,        \* the rooms of the group store
  RoomOf,      \* RoomOf[r]: the devices assigned to room r
  Interval,    \* ticks the recorder sleeps between cycles
  Retention,   \* _RETENTION_SECONDS in ticks
  MaxBoots,    \* bound: how often the server is restarted
  WeekDays,    \* days of a week
  MonthDays    \* days of a month

Device == Plug \cup {Strip}

ASSUME StripAssumption == Strip \notin Plug
ASSUME RoomAssumption == IsFiniteSet(Room) /\ RoomOf \in [Room -> SUBSET Device]
ASSUME CountAssumption == Interval \in Nat /\ MaxBoots \in Nat

\* Rows are kept for three months, longer than any total looks back.
ASSUME CalendarAssumption ==
  /\ WeekDays \in Nat \ {0} /\ MonthDays \in Nat \ {0} /\ Retention \in Nat
  /\ Retention >= WeekDays * DayLen /\ Retention >= MonthDays * DayLen

VARIABLES
  rec,        \* the recorder: "asleep", "sampling", "writing", "pruning"
  wakeAt,     \* when its sleep ends
  asked,      \* the devices whose answer this cycle still waits for
  begun,      \* when the cycle began
  batch,      \* the rows of the cycle so far
  lastPrune,  \* last_prune
  rows,       \* the samples table
  boots       \* how often the server was restarted

recVars == <<rec, wakeAt, asked, begun, batch, lastPrune, rows, boots>>
vars == <<stripVars, recVars>>

\* A row: the device, the time it is stamped with and the energy, Unread
\* when no meter answered. lag says how far the day of the energy is from the
\* day the row is stamped with: how much of a later day has begun, or how
\* much is left until an earlier one is over; 0 for energy of the row's own
\* day, Failed when it is another's because the plug could not be read.
Unread == -1
Failed == -1
Row == [dev : Device, ts : Time, kwh : Nat \cup {Unread},
        lag : Nat \cup {Failed}]

TypeOK ==
  /\ StripTypeOK
  /\ rec \in {"asleep", "sampling", "writing", "pruning"}
  /\ wakeAt \in 0..(Horizon + Interval)
  /\ asked \subseteq Device
  /\ begun \in Time
  /\ batch \subseteq Row
  /\ lastPrune \in Time \cup {-DayLen}
  /\ rows \subseteq Row
  /\ boots \in 0..MaxBoots

Lag(day) == CASE day = Day(now) -> 0
              [] day < Day(now) -> now + 1 - (day + 1) * DayLen
              [] day > Day(now) -> day * DayLen - now

Least(a, b) == IF a < b THEN a ELSE b

\* What plug p uses on a day up to instant t; a plug's clock is taken to be
\* the server's.
DayUse(p, day, t) ==
  SumFunctionOnSet(Load[p],
                   (day * DayLen)..(Least(t, (day + 1) * DayLen) - 1))

\* The row of plug p whose object holds consumption_today of instant t.
PlugRow(p, t) == [dev |-> p, ts |-> now, kwh |-> DayUse(p, Day(t), t),
                  lag |-> Lag(Day(t))]

\* The row of a reading of the strip that has just been returned.
StripRow(rd) ==
  IF rd.meters = {}
  THEN [dev |-> Strip, ts |-> now, kwh |-> Unread, lag |-> 0]
  ELSE [dev |-> Strip, ts |-> now, kwh |-> Kwh(rd), lag |-> Lag(rd.day)]

Init ==
  /\ StripInit
  /\ rec = "asleep" /\ wakeAt = 0
  /\ asked = {} /\ begun = 0 /\ batch = {}
  /\ lastPrune = -DayLen
  /\ rows = {} /\ boots = 0

-----------------------------------------------------------------------------
(* The recorder                                                            *)

\* Once the last device is answered the batch goes to a thread.
AfterAnswer(d) ==
  /\ asked' = asked \ {d}
  /\ rec' = IF asked = {d} THEN "writing" ELSE "sampling"

\* A cycle begins: every device is asked, the strip through energy_scalars,
\* which may answer from the cache at once.
BeginCycle ==
  /\ rec = "asleep" /\ now >= wakeAt
  /\ Enter(Recorder)
  /\ begun' = now
  /\ asked' = IF place'[Recorder] = "out" THEN Plug ELSE Device
  /\ batch' = IF place'[Recorder] = "out" THEN {StripRow(cache[cur])} ELSE {}
  /\ rec' = IF asked' = {} THEN "writing" ELSE "sampling"
  /\ UNCHANGED <<wakeAt, lastPrune, rows, boots>>

\* The strip's reading reaches the recorder; the row is stamped on the spot.
StripAnswered(rd) == AfterAnswer(Strip) /\ batch' = batch \cup {StripRow(rd)}

\* The strip answers the recorder, from its burst or from a cache filled
\* while it waited for the lock.
StripAnswers ==
  /\ rec = "sampling" /\ Strip \in asked
  /\ \/ /\ Handover(Recorder)
        /\ IF place'[Recorder] = "out" THEN StripAnswered(cache[on[Recorder]])
                                       ELSE UNCHANGED <<asked, rec, batch>>
     \/ \E rd \in BurstResults(Recorder) :
          EndBurst(Recorder, rd) /\ StripAnswered(rd)
  /\ UNCHANGED <<wakeAt, begun, lastPrune, rows, boots>>

\* The refresh of plug p comes back with what it read during the cycle.
PlugAnswers(p) ==
  /\ rec = "sampling" /\ p \in asked
  /\ \E t \in begun..now :
       batch' = batch \cup {PlugRow(p, t)}
  /\ AfterAnswer(p)
  /\ UNCHANGED <<stripVars, wakeAt, begun, lastPrune, rows, boots>>

\* The refresh of plug p fails; _refresh reports it, read_energy_snapshot
\* does not look, and what the object last read is recorded as current. Any
\* task may have refreshed the object last, at any earlier moment.
PlugFails(p) ==
  /\ rec = "sampling" /\ p \in asked
  /\ \E t \in 0..begun :
       LET row == PlugRow(p, t)
       IN  batch' = batch \cup
             {[row EXCEPT !.lag = IF @ = 0 THEN 0 ELSE Failed]}
  /\ AfterAnswer(p)
  /\ UNCHANGED <<stripVars, wakeAt, begun, lastPrune, rows, boots>>

Sleep == /\ rec' = "asleep" /\ wakeAt' = now + Interval
         /\ begun' = 0 /\ batch' = {}

PruneDue == now - lastPrune >= DayLen

\* Mutant: the next prune is stored where the last one is expected.
WriteBatchNextDue ==
  /\ rec = "writing"
  /\ rows' \in {rows, rows \cup batch}
  /\ IF PruneDue THEN /\ rec' = "pruning" /\ lastPrune' = now + DayLen
                      /\ batch' = {} /\ UNCHANGED <<wakeAt, begun>>
                 ELSE Sleep /\ UNCHANGED lastPrune
  /\ UNCHANGED <<stripVars, asked, boots>>

\* record_many: one transaction for the cycle, lost as a whole on an error.
WriteBatch ==
  /\ rec = "writing"
  /\ rows' \in {rows, rows \cup batch}
  /\ IF PruneDue THEN /\ rec' = "pruning" /\ lastPrune' = now
                      /\ batch' = {} /\ UNCHANGED <<wakeAt, begun>>
                 ELSE Sleep /\ UNCHANGED lastPrune
  /\ UNCHANGED <<stripVars, asked, boots>>

\* Mutant: the retention is not subtracted.
PruneToNow ==
  /\ rec = "pruning"
  /\ rows' = {w \in rows : w.ts >= lastPrune}
  /\ Sleep
  /\ UNCHANGED <<stripVars, asked, lastPrune, boots>>

\* prune, of what was older than the retention when it was decided on; an
\* error is swallowed and the next attempt is a day away.
Prune ==
  /\ rec = "pruning"
  /\ rows' \in {rows, {w \in rows : w.ts >= lastPrune - Retention}}
  /\ Sleep
  /\ UNCHANGED <<stripVars, asked, lastPrune, boots>>

-----------------------------------------------------------------------------
(* Everything else                                                         *)

\* A user asks for the usage of the strip, or the home summary does.
UserAsks(u) == Enter(u) /\ UNCHANGED recVars

UserServed(u) ==
  /\ \/ Handover(u)
     \/ \E rd \in BurstResults(u) : EndBurst(u, rd)
  /\ UNCHANGED recVars

\* A user rediscovers the devices.
Rediscover == Attach /\ UNCHANGED recVars

\* A tick is coarse (it stands for seconds): the event loop wakes the
\* recorder and the store's threads return within one.
Tick ==
  /\ StripTick
  /\ rec = "asleep" => now < wakeAt
  /\ rec \notin {"writing", "pruning"}
  /\ rec = "sampling" /\ asked \cap Plug # {} => now - begun < MaxBurst
  /\ UNCHANGED recVars

\* A new process; the rows remain.
Restart ==
  /\ boots < MaxBoots /\ boots' = boots + 1
  /\ StripRestart
  /\ rec' = "asleep" /\ wakeAt' = now'
  /\ asked' = {} /\ begun' = 0 /\ batch' = {}
  /\ lastPrune' = -DayLen
  /\ UNCHANGED rows

Next ==
  \/ BeginCycle \/ StripAnswers \/ WriteBatch \/ Prune
  \/ \E p \in Plug : PlugAnswers(p) \/ PlugFails(p)
  \/ \E u \in User : UserAsks(u) \/ UserServed(u)
  \/ Rediscover
  \/ Tick
  \/ Restart

\* Every await of the recorder and of a user's call ends: a plug answers or
\* its read times out, a burst ends with its last RPC, the lock is handed
\* on, and the threads of the store return. Nothing is assumed of when
\* cycles begin or whether the server is restarted.
Fairness ==
  /\ WF_vars(StripAnswers) /\ WF_vars(WriteBatch) /\ WF_vars(Prune)
  /\ \A p \in Plug : WF_vars(PlugAnswers(p) \/ PlugFails(p))
  /\ \A u \in User : WF_vars(UserServed(u))

Spec == Init /\ [][Next]_vars /\ Fairness

-----------------------------------------------------------------------------
(* The totals served from the history                                      *)

\* The rows that carry a reading, and the most that any of them reports.
Usable(w) == w.kwh # Unread
Highest(ws) == Max({w.kwh : w \in ws})
DaysOf(ws) == {Day(w.ts) : w \in ws}
DayRows(ws, day) == {w \in ws : Day(w.ts) = day}

\* Sum over the days of ws of the highest reading of that day: the shape all
\* the aggregations share.
SumOfDays(ws) ==
  SumFunction([day \in DaysOf(ws) |-> Highest(DayRows(ws, day))])

RowsOf(d) == {w \in rows : w.dev = d /\ Usable(w)}

\* daily_totals: per day with a reading since the cutoff, the highest.
DailyTotals(d, cutoff) ==
  LET ws == {w \in RowsOf(d) : w.ts >= cutoff}
  IN  [day \in DaysOf(ws) |-> Highest(DayRows(ws, day))]

\* today_kwh_by_device, 0 for a device without a reading today.
TodayKwh(d) == SumOfDays(DayRows(RowsOf(d), Day(now)))

MonthOf(day) == day \div MonthDays

\* Mutant: the highest reading of the month, not of each of its days.
MonthKwhOneMax(d) ==
  LET ws == {w \in RowsOf(d) : MonthOf(Day(w.ts)) = MonthOf(Day(now))}
  IN  IF ws = {} THEN 0 ELSE Highest(ws)

\* month_kwh_by_device.
MonthKwh(d) ==
  SumOfDays({w \in RowsOf(d) : MonthOf(Day(w.ts)) = MonthOf(Day(now))})
MonthByDevice == [d \in Device |-> MonthKwh(d)]

\* home_kwh_between two local midnights, for the whole home.
HomeKwhBetween(from, to) ==
  SumFunction([d \in Device |->
                 SumOfDays({w \in RowsOf(d) : w.ts >= from /\ w.ts < to})])

Monday == (Day(now) \div WeekDays) * WeekDays
WeekKwh == HomeKwhBetween(Monday * DayLen, (Monday + WeekDays) * DayLen)

\* The rooms of the insights, and the bucket of the devices in no room.
RoomKwh(r) == SumFunctionOnSet(MonthByDevice, RoomOf[r])
UnassignedKwh ==
  SumFunctionOnSet(MonthByDevice, Device \ UNION {RoomOf[r] : r \in Room})

-----------------------------------------------------------------------------
(* Properties                                                              *)

\* A row carries the energy of another day than the one it is filed under
\* only when its plug could not be read, or close to midnight: within one
\* read after it for a plug; for the strip, whose energy is of a day of the
\* strip's own clock, within one read, the age of a shared result and what
\* that clock is off by. Lock queues, cache, a replaced object and the
\* recorder's pace do not add up to more.
MisdatedOnlyBriefly ==
  \A w \in rows :
    w.lag <= MaxBurst + (IF w.dev = Strip THEN TTL - 1 + Drift ELSE 0)

\* PATCH /api/groups/{id} takes any devices; the interface keeps a device in
\* one room.
OneRoomEach ==
  \A r, s \in Room : r = s \/ RoomOf[r] \cap RoomOf[s] = {}

\* The month, the weeks, the days and the rooms are one account of the same
\* energy: the devices' months add up to the home's days and to the rooms
\* and the rest, unless a device is counted in two rooms; a week within the
\* month is part of it; and today is the last of the daily totals wherever
\* within an earlier day the window of daily_totals starts.
ViewsAgree ==
  LET month == MonthOf(Day(now)) * MonthDays
      home  == SumFunction(MonthByDevice)
      rooms == SumFunction([r \in Room |-> RoomKwh(r)])
  IN  /\ home = HomeKwhBetween(month * DayLen, (month + MonthDays) * DayLen)
      /\ home <= UnassignedKwh + rooms
      /\ OneRoomEach => home = UnassignedKwh + rooms
      /\ month <= Monday /\ Monday + WeekDays <= month + MonthDays
           => WeekKwh <= home
      /\ \A d \in Device, cutoff \in 0..(Day(now) * DayLen) :
           LET totals == DailyTotals(d, cutoff)
           IN  /\ TodayKwh(d) = IF Day(now) \in DOMAIN totals
                                THEN totals[Day(now)] ELSE 0
               /\ TodayKwh(d) <= MonthKwh(d)

\* What is on record of this week and this month never shrinks within them,
\* though the strip's partial reads report less than was read before and
\* pruning deletes in the middle of a day.
TotalsOnlyGrow ==
  [][Day(now') = Day(now) =>
       /\ WeekKwh' >= WeekKwh
       /\ \A d \in Device : /\ MonthKwh(d)' >= MonthKwh(d)
                            /\ TodayKwh(d)' >= TodayKwh(d)]_vars

\* Every call for the strip's energy returns and every recorder cycle ends,
\* whoever holds the lock and however often reads fail.
ReadsEnd ==
  /\ \A u \in User : place[u] # "out" ~> place[u] = "out"
  /\ rec # "asleep" ~> rec = "asleep"
=============================================================================
