---------------------------- MODULE StripEnergy -----------------------------
(***************************************************************************)
(* Energy reads of a cloud-controlled power strip (CloudDevice of          *)
(* api/cloud_service.py): energy_summary shares one cloud burst among its  *)
(* callers through a cache behind a single-flight lock; energy_scalars,    *)
(* the recorder's read, takes a fresh cache or makes a burst of its own    *)
(* outside the lock. Cache and lock belong to one CloudDevice object, and  *)
(* a rediscovery puts a new object in its place.                           *)
(*                                                                         *)
(* A burst asks the strip's clock, which is not the server's, which day it *)
(* is, then every outlet's meter, which keeps its days by that clock, and  *)
(* adds up the day's entries of the outlets that answered. What matters of *)
(* its result is kept: the day asked for, the instant the outlets were     *)
(* read, and which of them answered. The energy itself is a function of    *)
(* that (Kwh), as the load of every meter is a constant.                   *)
(***************************************************************************)
EXTENDS Integers, Sequences, FiniteSetsExt

CONSTANTS
  User,       \* the tasks that call energy_summary (usage, home summary)
  Recorder,   \* the task that calls energy_scalars
  Outlet,     \* the outlets of the strip, each with a meter
  Plug,       \* the local metered devices (used by module Energy)
  Load,       \* Load[m][t]: what meter m consumes between t and t + 1
  DayLen,     \* ticks of a day
  Drift,      \* bound: how far the strip's clock is off, in ticks
  Skew,       \* Skew[t]: how far it is ahead of the server's at instant t
  TTL,        \* _ENERGY_SUMMARY_TTL in ticks
  MaxBurst,   \* bound: ticks a burst can last, from the RPC timeouts
  MaxSwaps,   \* bound: how often a process replaces the strip's object
  Horizon     \* bound on the clock

Time == 0..Horizon
Reader == User \cup {Recorder}
Meter == Outlet \cup Plug

ASSUME RecorderAssumption == Recorder \notin User
ASSUME TimesAssumption == /\ DayLen \in Nat \ {0} /\ TTL \in Nat \ {0}
                          /\ MaxBurst \in Nat /\ Horizon \in Nat
                          /\ MaxSwaps \in Nat
ASSUME ClockAssumption == Drift \in Nat /\ Skew \in [Time -> -Drift..Drift]
ASSUME MeterAssumption == IsFiniteSet(Meter)
ASSUME LoadAssumption == Load \in [Meter -> [0..(Horizon - 1) -> Nat]]

VARIABLES
  now,       \* the clock
  cur,       \* the object the registry holds for the strip
  on,        \* on[r]: the object the call of r is made on
  waiters,   \* waiters[o]: the tasks waiting for o's _energy_summary_lock
  place,     \* place[r]: where the call of r is suspended
  since,     \* since[r]: when the burst of r began
  cache,     \* cache[o]: its _energy_summary_cache, Nothing for None
  cacheAt    \* cacheAt[o]: its _energy_summary_at

stripVars == <<now, cur, on, waiters, place, since, cache, cacheAt>>

Object == 0..MaxSwaps
Place == {"out", "queued", "locked", "loose"}

\* The day of an instant by the server's clock, and by the strip's.
Day(t) == t \div DayLen
StripDay(t) == (t + Skew[t]) \div DayLen

\* The result of a read. meters answered with what day, one of the strip's,
\* had accumulated at instant at: all of that day if it is over by then.
Reading == [meters : SUBSET Meter, day : Int, at : Time]
Nothing == [meters |-> {}, day |-> 0, at |-> -1]

\* A read in which no meter answered: it has no energy, so of no day.
Silence == [meters |-> {}, day |-> 0, at |-> 0]

\* The ticks before instant t that the strip files under a day.
TicksOf(day, t) == {k \in 0..(t - 1) : StripDay(k) = day}

\* The kwh a reading reports: the sum over the meters that answered.
Kwh(rd) ==
  SumFunction([m \in rd.meters |->
                 SumFunctionOnSet(Load[m], TicksOf(rd.day, rd.at))])

StripInit ==
  /\ now = 0 /\ cur = 0
  /\ on = [r \in Reader |-> 0]
  /\ waiters = [o \in Object |-> <<>>]
  /\ place = [r \in Reader |-> "out"]
  /\ since = [r \in Reader |-> 0]
  /\ cache = [o \in Object |-> Nothing]
  /\ cacheAt = [o \in Object |-> -TTL]

-----------------------------------------------------------------------------
\* Mutant: a cached result does not age.
FreshOnceRead(o) == cache[o] # Nothing

\* Is the result cached in object o young enough to be shared?
Fresh(o) == cache[o] # Nothing /\ now - cacheAt[o] < TTL

Locked(o) == \E r \in Reader : on[r] = o /\ place[r] = "locked"

\* Is object o the registry's, or does a call still hold it? What neither
\* does is garbage, and nothing is left of its cache.
Held(o) == o = cur \/ \E r \in Reader : on[r] = o /\ place[r] # "out"
Caches(c, at) ==
  /\ cache' = [o \in Object |-> IF Held(o)' THEN c[o] ELSE Nothing]
  /\ cacheAt' = [o \in Object |-> IF Held(o)' THEN at[o] ELSE -TTL]

\* The body of the call once r has the lock of object o: a fresh result is
\* returned on the spot; otherwise energy_summary reads under the lock and
\* energy_scalars lets go of it and reads.
Inside(r, o) ==
  IF Fresh(o)
  THEN /\ place' = [place EXCEPT ![r] = "out"]
       /\ on' = [on EXCEPT ![r] = 0]
       /\ UNCHANGED since
  ELSE /\ place' = [place EXCEPT ![r] = IF r = Recorder THEN "loose"
                                                        ELSE "locked"]
       /\ on' = [on EXCEPT ![r] = o]
       /\ since' = [since EXCEPT ![r] = now]

\* Mutant: the cache is checked before the lock is taken, and not under it.
EnterUnchecked(r) ==
  /\ place[r] = "out"
  /\ place' = [place EXCEPT ![r] = IF r = Recorder THEN "loose" ELSE "locked"]
  /\ on' = [on EXCEPT ![r] = cur]
  /\ since' = [since EXCEPT ![r] = now]
  /\ UNCHANGED <<now, cur, waiters, cache, cacheAt>>

\* energy_summary or energy_scalars is called on the registry's object.
Enter(r) ==
  /\ place[r] = "out"
  /\ \/ /\ ~Locked(cur) /\ waiters[cur] = <<>>
        /\ Inside(r, cur)
        /\ UNCHANGED waiters
     \/ /\ Locked(cur) \/ waiters[cur] # <<>>
        /\ place' = [place EXCEPT ![r] = "queued"]
        /\ on' = [on EXCEPT ![r] = cur]
        /\ waiters' = [waiters EXCEPT ![cur] = Append(@, r)]
        /\ UNCHANGED since
  /\ UNCHANGED <<now, cur, cache, cacheAt>>

\* Mutant: the lock is handed to whoever came last.
HandoverToLast(r) ==
  LET o == on[r] IN
  /\ place[r] = "queued" /\ ~Locked(o)
  /\ waiters[o] # <<>> /\ r = waiters[o][Len(waiters[o])]
  /\ waiters' = [waiters EXCEPT ![o] = SubSeq(@, 1, Len(@) - 1)]
  /\ Inside(r, o)
  /\ UNCHANGED <<now, cur>>
  /\ Caches(cache, cacheAt)

\* The lock is free and its first waiter runs.
Handover(r) ==
  LET o == on[r] IN
  /\ place[r] = "queued" /\ ~Locked(o)
  /\ waiters[o] # <<>> /\ r = Head(waiters[o])
  /\ waiters' = [waiters EXCEPT ![o] = Tail(@)]
  /\ Inside(r, o)
  /\ UNCHANGED <<now, cur>>
  /\ Caches(cache, cacheAt)

\* The readings a burst of r can end with: the strip's clock was read at
\* some instant c of the burst, or that failed and the server's date stands
\* in, and the outlets at a later one. Any of them may have failed, in the
\* end all; and an outlet has no entry for a day its clock has not seen.
BurstResults(r) ==
  {Silence} \cup
  {rd \in UNION {[meters : (SUBSET Outlet) \ {{}}, day : {StripDay(c), Day(c)},
                  at : c..now] : c \in since[r]..now} :
     \E k \in 0..rd.at : StripDay(k) = rd.day}

\* _fetch_emeter returns rd; it never raises. A summary is cached in its
\* object whatever it holds, the scalars are not.
EndBurst(r, rd) ==
  /\ place[r] \in {"locked", "loose"}
  /\ rd \in BurstResults(r)
  /\ place' = [place EXCEPT ![r] = "out"]
  /\ on' = [on EXCEPT ![r] = 0]
  /\ since' = [since EXCEPT ![r] = 0]
  /\ UNCHANGED <<now, cur, waiters>>
  /\ IF place[r] = "locked" THEN Caches([cache EXCEPT ![on[r]] = rd],
                                        [cacheAt EXCEPT ![on[r]] = now])
                            ELSE Caches(cache, cacheAt)

\* POST /api/discover: attach_cloud puts a new object in the strip's place,
\* with a cache and a lock of its own. Calls under way stay with the old one.
Attach ==
  /\ cur < MaxSwaps /\ cur' = cur + 1
  /\ UNCHANGED <<now, on, waiters, place, since>>
  /\ Caches(cache, cacheAt)

\* Time passes; a burst that has used up its timeouts must end first.
StripTick ==
  /\ now < Horizon
  /\ \A r \in Reader : place[r] \in {"locked", "loose"}
                         => now - since[r] < MaxBurst
  /\ now' = now + 1
  /\ UNCHANGED <<cur, on, waiters, place, since, cache, cacheAt>>

\* A new process, a tick later: no cache, nobody waiting.
StripRestart ==
  /\ now < Horizon /\ now' = now + 1
  /\ cur' = 0
  /\ on' = [r \in Reader |-> 0]
  /\ waiters' = [o \in Object |-> <<>>]
  /\ place' = [r \in Reader |-> "out"]
  /\ since' = [r \in Reader |-> 0]
  /\ cache' = [o \in Object |-> Nothing]
  /\ cacheAt' = [o \in Object |-> -TTL]

StripNext ==
  \/ \E r \in Reader : \/ Enter(r) \/ Handover(r)
                       \/ \E rd \in BurstResults(r) : EndBurst(r, rd)
  \/ Attach
  \/ StripTick
  \/ StripRestart

StripSpec == StripInit /\ [][StripNext]_stripVars

StripTypeOK ==
  /\ now \in Time
  /\ cur \in Object
  /\ on \in [Reader -> Object]
  /\ waiters \in [Object -> Seq(Reader)]
  /\ place \in [Reader -> Place]
  /\ since \in [Reader -> Time]
  /\ cache \in [Object -> Reading \cup {Nothing}]
  /\ cacheAt \in [Object -> Time \cup {-TTL}]

\* However many tasks ask an object for the summary at once, it makes one
\* full-table burst at a time and none while its last result is fresh: the
\* cache is looked at under the lock, by every waiter in turn, and a task
\* that was waiting when the registry's object was replaced burdens the
\* account through the old object without disturbing the new one. Bursts of
\* different objects do overlap.
Shared(o) == INSTANCE SharedRead
               WITH reading <- Locked(o), stamp <- cacheAt[o],
                    gone <- o < cur /\ ~Held(o)
SharedReads ==
  /\ \A o \in Object : Shared(o)!Init
  /\ [][\A o \in Object : [Shared(o)!Next]_(Shared(o)!vars)]_stripVars
=============================================================================
