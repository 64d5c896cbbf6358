---------------------------- MODULE RegistryProofs ----------------------------
(***************************************************************************)
(* Proofs about Registry, for every set of devices, addresses and cloud    *)
(* devices, with or without a subnet, and every number of events.          *)
(***************************************************************************)
EXTENDS Registry, TLAPS

USE RegistryConstants

-----------------------------------------------------------------------------
(* Types *)

Progress == [phase : {"idle", "scan", "read", "probe", "release", "sweep",
                      "cloud", "done"},
             todo : SUBSET Host, prev : SUBSET Obj,
             skip : SUBSET Device, found : SUBSET Device]

ScanType == [Pass -> Progress]

\* TypeOK, with the progress of the passes and the flag apart.
PlainType ==
  /\ where \in [Device -> Host \cup {Off}]
  /\ devices \in [Device -> Obj \cup {Empty}]
  /\ cloud \subseteq Cloud /\ hosts \subseteq Host
  /\ snapshots \in [Host -> Device \cup {None}]
  /\ saved \in [Host -> Device \cup {None}]
  /\ open \subseteq Obj
  /\ storing \subseteq [obj : Obj, old : Obj]
  /\ held \subseteq Device \X Host
  /\ known \subseteq Device
  /\ mishap \subseteq {"overlap", "reuse", "race"}

CountType == events \in 0 .. MaxEvents /\ calm \in BOOLEAN

LEMMA TypeParts ==
  /\ TypeOK <=> PlainType /\ (scan \in ScanType) /\ CountType
  /\ TypeOK' <=> PlainType' /\ (scan' \in ScanType) /\ CountType'
<1>1. TypeOK <=> PlainType /\ (scan \in ScanType) /\ CountType
  BY DEF TypeOK, PlainType, ScanType, Progress, CountType
<1>2. TypeOK' <=> PlainType' /\ (scan' \in ScanType) /\ CountType'
  BY DEF TypeOK, PlainType, ScanType, Progress, CountType
<1> QED BY <1>1, <1>2

\* An event is counted within its bound.
LEMMA EventType == CountType /\ Event => CountType'
<1> SUFFICES ASSUME CountType, Event PROVE CountType'
  OBVIOUS
<1>1. events' \in 0 .. MaxEvents
  BY DEF CountType, Event
<1>2. calm' = FALSE
  BY DEF Event
<1> QED BY <1>1, <1>2, Zenon DEF CountType

LEMMA QuietType == CountType /\ UNCHANGED <<events, calm>> => CountType'
  BY DEF CountType

\* One pass makes progress.
LEMMA ScanUpdate ==
  ASSUME scan \in ScanType, NEW p \in Pass, NEW r \in Progress,
         scan' = [scan EXCEPT ![p] = r]
  PROVE  scan' \in ScanType
  BY DEF ScanType

LEMMA EmptyIsNoObject == Empty \notin Obj
  BY DEF Empty, Obj

LEMMA CachedType ==
  ASSUME TypeOK
  PROVE  Cached \subseteq Obj /\ LocalIds \subseteq Device
         /\ CachedHosts \subseteq Host
<1>1. Cached \subseteq Obj
  BY DEF TypeOK, Cached
<1> QED BY <1>1 DEF LocalIds, CachedHosts, Obj

LEMMA BlankType == Blank \in Progress /\ Startup \in ScanType
  BY DEF Blank, Startup, ScanType, Progress, Pass

LEMMA TypeInit == Init => TypeOK
<1> SUFFICES ASSUME Init PROVE TypeOK
  OBVIOUS
<1>1. held \subseteq Device \X Host
  BY DEF Init
<1>2. PlainType
  BY <1>1 DEF Init, PlainType
<1>3. events \in 0 .. MaxEvents
  BY DEF Init
<1>4. CountType
  BY <1>3, Zenon DEF Init, CountType
<1> QED BY <1>2, <1>4, BlankType, TypeParts DEF Init

\* What an attachment does to the cache, the sessions and the calls under way:
\* nothing, or object o of device d is stored or about to be.
Store(d, o) ==
  /\ open' = open \cup {o}
  /\ mishap' = IF \E s \in storing : s.obj.dev = d
                 THEN mishap \cup {"race"} ELSE mishap
  /\ IF devices[d] = Empty
       THEN /\ devices' = [devices EXCEPT ![d] = o]
            /\ snapshots' = [snapshots EXCEPT ![o.host] = d]
            /\ UNCHANGED storing
       ELSE /\ storing' = storing \cup {[obj |-> o, old |-> devices[d]]}
            /\ UNCHANGED <<devices, snapshots>>

NewObj(p, d, h) == [dev |-> d, host |-> h, pass |-> p, stage |-> scan[p].phase]

LEMMA AttachStores ==
  ASSUME TypeOK, NEW p \in Pass, NEW h \in Host, NEW ok \in BOOLEAN,
         Attach(p, h, ok)
  PROVE  /\ scan[p].phase \in {"read", "probe", "sweep"}
         /\ h \in scan[p].todo
         /\ \/ UNCHANGED <<cacheVars, mishap>>
            \/ \E d \in Device : /\ NewObj(p, d, h) \in Obj
                                 /\ Store(d, NewObj(p, d, h))
<1>1. scan[p].phase \in {"read", "probe", "sweep"} /\ h \in scan[p].todo
  BY DEF Attach
<1>2. \A d \in Device : NewObj(p, d, h) \in Obj
  BY <1>1 DEF NewObj, Obj
<1>3. CASE ~ok
  BY <1>1, <1>3 DEF Attach
<1>4. CASE ok
  <2>1. \E d \in At(h) : Store(d, NewObj(p, d, h))
    BY <1>4 DEF Attach, Store, NewObj
  <2> QED BY <1>1, <1>2, <2>1 DEF At
<1> QED BY <1>3, <1>4

LEMMA StoreType ==
  ASSUME PlainType, NEW d \in Device, NEW o \in Obj, o.host \in Host,
         Store(d, o), UNCHANGED <<where, held, hosts, saved, known, cloud>>
  PROVE  PlainType'
<1>1. CASE devices[d] = Empty
  BY <1>1 DEF Store, PlainType
<1>2. CASE devices[d] # Empty
  <2>1. [obj |-> o, old |-> devices[d]] \in [obj : Obj, old : Obj]
    BY <1>2 DEF PlainType
  <2> QED BY <1>2, <2>1 DEF Store, PlainType
<1> QED BY <1>1, <1>2

LEMMA AttachType ==
  ASSUME TypeOK, NEW p \in Pass, NEW h \in Host, NEW ok \in BOOLEAN,
         Attach(p, h, ok)
  PROVE  TypeOK'
<1>0. PlainType /\ scan \in ScanType /\ CountType
  BY TypeParts
<1>1. scan' \in ScanType
  <2>1. At(h) \subseteq Device
    BY DEF At
  <2>2. PICK F \in SUBSET Device :
          scan' = [scan EXCEPT ![p].todo = @ \ {h}, ![p].found = F]
    BY <1>0, <2>1 DEF Attach, ScanType, Progress
  <2>3. \A q \in Pass : scan'[q] \in Progress
    BY <1>0, <2>2 DEF ScanType, Progress
  <2> QED BY <1>0, <2>2, <2>3 DEF ScanType
<1>2. CountType'
  BY <1>0, EventType, QuietType DEF Attach, Quiet
<1>3. UNCHANGED <<where, held, hosts, saved, known, cloud>>
  BY DEF Attach, worldVars, fileVars
<1>4. PlainType'
  <2>1. CASE UNCHANGED <<cacheVars, mishap>>
    BY <1>0, <1>3, <2>1 DEF PlainType, cacheVars
  <2>2. ASSUME NEW d \in Device, NewObj(p, d, h) \in Obj,
               Store(d, NewObj(p, d, h))
        PROVE  PlainType'
    <3>1. NewObj(p, d, h).host \in Host
      BY DEF NewObj
    <3> QED BY <1>0, <1>3, <2>2, <3>1, StoreType
  <2> QED BY <2>1, <2>2, AttachStores
<1> QED BY <1>1, <1>2, <1>4, TypeParts

LEMMA TypeNext == TypeOK /\ [Next]_vars => TypeOK'
<1> SUFFICES ASSUME PlainType, scan \in ScanType, CountType, [Next]_vars
             PROVE  TypeOK'
  BY TypeParts
<1> USE DEF worldVars, cacheVars, fileVars, Quiet
<1>0. TypeOK
  BY TypeParts
<1>1. ASSUME NEW p \in Pass, NEW H \in SUBSET Host, Found(p, H) PROVE TypeOK'
  <2>1. PlainType'
    BY <1>1 DEF Found, PlainType
  <2>2. scan' \in ScanType
    <3>1. [scan[p] EXCEPT !.phase = "read", !.todo = H, !.prev = Cached]
            \in Progress
      BY <1>0, CachedType DEF ScanType, Progress
    <3>2. scan' = [scan EXCEPT ![p] = [@ EXCEPT !.phase = "read", !.todo = H,
                                                !.prev = Cached]]
      BY <1>1 DEF Found, ScanType
    <3> QED BY <3>1, <3>2, ScanUpdate
  <2>3. CountType'
    <3>1. CASE Event
      BY <3>1, EventType
    <3>2. CASE calm' = (storing = {}) /\ UNCHANGED events
      <4>1. calm' \in BOOLEAN
        BY <3>2, Zenon
      <4> QED BY <3>2, <4>1 DEF CountType
    <3> QED BY <1>1, <3>1, <3>2 DEF Found
  <2> QED BY <2>1, <2>2, <2>3, TypeParts
<1>2. ASSUME NEW s \in storing, EndStore(s) PROVE TypeOK'
  <2>1. /\ s.obj \in Obj /\ s.obj.dev \in Device /\ s.obj.host \in Host
    BY DEF PlainType, Obj
  <2>2. PlainType'
    BY <1>2, <2>1 DEF EndStore, PlainType
  <2> QED BY <1>2, <2>2, QuietType, TypeParts DEF EndStore
<1>3. ASSUME NEW p \in Pass, ScanFails(p) PROVE TypeOK'
  <2>1. PlainType'
    BY <1>3 DEF ScanFails, PlainType
  <2>2. scan' \in ScanType
    BY <1>3 DEF ScanFails, ScanType, Progress
  <2> QED BY <1>3, <2>1, <2>2, EventType, TypeParts DEF ScanFails
<1>4. ASSUME NEW p \in Pass, BeginProbes(p) PROVE TypeOK'
  <2>1. PlainType'
    BY <1>4 DEF BeginProbes, PlainType
  <2>2. scan' \in ScanType
    <3>1. ToProbe \subseteq Host
      BY DEF PlainType, ToProbe
    <3> QED BY <1>4, <3>1 DEF BeginProbes, ScanType, Progress
  <2> QED BY <1>4, <2>1, <2>2, QuietType, TypeParts DEF BeginProbes
<1>5. ASSUME NEW p \in Pass, Persist(p)
      PROVE  /\ hosts' \subseteq Host /\ known' \subseteq Device
             /\ saved' \in [Host -> Device \cup {None}]
  <2>1. scan[p].found \subseteq Device
    BY DEF ScanType, Progress
  <2> QED BY <1>0, <1>5, <2>1, CachedType DEF Persist, PlainType
<1>6. ASSUME NEW p \in Pass
      PROVE  /\ [Blank EXCEPT !.phase = "sweep", !.todo = Host] \in Progress
             /\ [Blank EXCEPT !.phase = "cloud", !.skip = LocalIds] \in Progress
             /\ [Blank EXCEPT !.phase = "done"] \in Progress
  BY <1>0, BlankType, CachedType DEF Progress
<1>r. ASSUME NEW p \in Pass, ReleasePrevious(p) PROVE TypeOK'
  <2> DEFINE g == [scan[p] EXCEPT !.phase = "release", !.prev = {}]
  <2>1. g \in Progress /\ scan' = [scan EXCEPT ![p] = g]
    BY <1>0, <1>r DEF ReleasePrevious, ScanType, Progress
  <2> HIDE DEF g
  <2>2. scan' \in ScanType
    BY <1>r, <2>1, ScanUpdate
  <2>3. PlainType'
    BY <1>r DEF ReleasePrevious, PlainType
  <2> QED BY <1>r, <2>2, <2>3, QuietType, TypeParts DEF ReleasePrevious
<1>7. ASSUME NEW p \in Pass, EndScan(p) PROVE TypeOK'
  <2>1. scan' \in ScanType
    BY <1>6, <1>7, ScanUpdate DEF EndScan
  <2>2. PlainType'
    BY <1>5, <1>7 DEF EndScan, PlainType
  <2> QED BY <1>7, <2>1, <2>2, QuietType, TypeParts DEF EndScan
<1>8. ASSUME NEW p \in Pass, EndSweep(p) PROVE TypeOK'
  <2>1. scan' \in ScanType
    BY <1>6, <1>8, ScanUpdate DEF EndSweep
  <2>2. PlainType'
    BY <1>5, <1>8 DEF EndSweep, PlainType
  <2> QED BY <1>8, <2>1, <2>2, QuietType, TypeParts DEF EndSweep
<1>9. ASSUME NEW p \in Pass, AttachCloud(p) PROVE TypeOK'
  <2>1. scan' \in ScanType
    BY <1>6, <1>9, ScanUpdate DEF AttachCloud
  <2>2. cloud' \subseteq Cloud
    BY <1>9 DEF AttachCloud, Wanted, PlainType
  <2>3. PlainType'
    BY <1>9, <2>2 DEF AttachCloud, PlainType
  <2>4. CountType'
    BY <1>9, EventType, QuietType DEF AttachCloud
  <2> QED BY <2>1, <2>3, <2>4, TypeParts
<1>10. ASSUME NEW d \in Device, NEW h \in Host \cup {Off}, Move(d, h)
       PROVE  TypeOK'
  <2>1. held' \subseteq Device \X Host
    BY <1>10 DEF Move, PlainType
  <2>2. mishap' \subseteq {"overlap", "reuse", "race"}
    BY <1>10 DEF Move, PlainType
  <2>3. PlainType'
    BY <1>10, <2>1, <2>2 DEF Move, PlainType
  <2> QED BY <1>10, <2>3, EventType, TypeParts DEF Move
<1>11. CASE Rediscover
  <2>1. scan' \in ScanType
    BY <1>11 DEF Rediscover, ScanType, Progress, Pass
  <2>2. PlainType'
    BY <1>11 DEF Rediscover, PlainType
  <2> QED BY <1>11, <2>1, <2>2, QuietType, TypeParts DEF Rediscover
<1>12. CASE DiscoverSubnet
  <2>1. scan' \in ScanType
    BY <1>12 DEF DiscoverSubnet, ScanType, Progress, Pass
  <2>2. PlainType'
    BY <1>12 DEF DiscoverSubnet, PlainType
  <2> QED BY <1>12, <2>1, <2>2, QuietType, TypeParts DEF DiscoverSubnet
<1>13. CASE Restart
  <2>1. PlainType'
    BY <1>13 DEF Restart, PlainType
  <2> QED BY <1>13, <2>1, BlankType, EventType, TypeParts DEF Restart
<1>14. CASE UNCHANGED vars
  BY <1>0, <1>14 DEF vars, TypeOK
<1> QED BY <1>0, <1>1, <1>2, <1>3, <1>4, <1>r, <1>7, <1>8, <1>9, <1>10, <1>11,
           <1>12, <1>13, <1>14, AttachType, TypeParts DEF Next, PassStep

\* Every variable keeps its type: nothing but an object is ever cached, open or
\* waiting to be stored, and every persisted snapshot is one of a device.
THEOREM TypeCorrect == Spec => []TypeOK
<1> QED BY TypeInit, TypeNext, PTL DEF Spec

-----------------------------------------------------------------------------
(* Objects and how they come about *)

\* The objects that a superseding call will release, or a pass.
Replaced == {s.old : s \in storing}
Previous == UNION {scan[p].prev : p \in Pass}

\* An object was made by a pass that is past the host or the stage it came from.
Made(o) ==
  LET at == scan[o.pass] IN
  \/ at.phase \in {"cloud", "done"}
  \/ at.phase = o.stage /\ o.host \notin at.todo
  \/ o.stage = "read" /\ at.phase \in {"probe", "release", "sweep"}
  \/ o.stage = "probe" /\ at.phase \in {"release", "sweep"}

\* So an object about to be made is none of those there are.
AllMade == \A o \in open \cup Previous \cup Replaced : Made(o)

\* What _store_device is about to cache is open and nobody else's, and
\* supersedes an object of the same device.
StoredNext ==
  \A s \in storing :
    /\ s.obj \in open
    /\ s.old.dev = s.obj.dev
    /\ s.obj \notin Cached \cup Previous \cup Replaced
    /\ \A t \in storing : t.obj = s.obj => t = s

OpenInv == CachedIsOpen /\ StoredNext /\ AllMade

-----------------------------------------------------------------------------
(* The session of a cached object is open *)

LEMMA CachedMeans ==
  /\ \A o : o \in Cached <=> o # Empty /\ \E d \in Device : devices[d] = o
  /\ \A o : o \in Previous <=> \E p \in Pass : o \in scan[p].prev
  /\ \A o : o \in Replaced <=> \E s \in storing : s.old = o
  BY DEF Cached, Previous, Replaced

\* The same of the next state.
LEMMA CachedMeansNext ==
  /\ \A o : o \in Cached' <=> o # Empty /\ \E d \in Device : devices'[d] = o
  /\ \A o : o \in Previous' <=> \E p \in Pass : o \in scan'[p].prev
  /\ \A o : o \in Replaced' <=> \E s \in storing' : s.old = o
  BY DEF Cached, Previous, Replaced

LEMMA ObjectsType ==
  ASSUME TypeOK
  PROVE  Previous \subseteq Obj /\ Replaced \subseteq Obj
  BY DEF TypeOK, Previous, Replaced

\* A pass does not go back: what it made stays behind it.
LEMMA MadeStays ==
  ASSUME TypeOK, [Next]_vars, ~Restart, NEW o \in Obj, Made(o)
  PROVE  Made(o)'
<1> USE DEF worldVars, cacheVars, fileVars, Pass, Blank
<1>0. /\ o.pass \in Pass /\ o.stage \in {"read", "probe", "sweep"}
      /\ scan \in [Pass -> Progress]
  BY TypeParts DEF Obj, ScanType
<1>1. CASE UNCHANGED scan
  BY <1>1 DEF Made
<1>2. ASSUME NEW p \in Pass, NEW H \in SUBSET Host, Found(p, H) PROVE Made(o)'
  BY <1>0, <1>2 DEF Found, Made, Progress
<1>3. ASSUME NEW p \in Pass, NEW h \in Host, NEW ok \in BOOLEAN,
             Attach(p, h, ok)
      PROVE  Made(o)'
  <2>1. /\ scan'[o.pass].phase = scan[o.pass].phase
        /\ scan'[o.pass].todo \subseteq scan[o.pass].todo
    BY <1>0, <1>3 DEF Attach, Progress
  <2> QED BY <2>1 DEF Made
<1>4. ASSUME NEW p \in Pass, ScanFails(p) PROVE Made(o)'
  BY <1>0, <1>4 DEF ScanFails, Made, Progress
<1>5. ASSUME NEW p \in Pass, BeginProbes(p) PROVE Made(o)'
  <2>1. CASE o.pass = p
    <3>1. o.stage = "read" /\ scan'[p].phase = "probe"
      BY <1>0, <1>5, <2>1 DEF BeginProbes, Made, Progress
    <3> QED BY <2>1, <3>1 DEF Made
  <2>2. CASE o.pass # p
    BY <1>0, <1>5, <2>2 DEF BeginProbes, Made
  <2> QED BY <2>1, <2>2
<1>r. ASSUME NEW p \in Pass, ReleasePrevious(p) PROVE Made(o)'
  <2>1. CASE o.pass = p
    <3>1. o.stage \in {"read", "probe"}
      BY <1>0, <1>r, <2>1 DEF ReleasePrevious, Made
    <3>2. scan'[p].phase = "release"
      BY <1>0, <1>r DEF ReleasePrevious, Progress
    <3> QED BY <2>1, <3>1, <3>2 DEF Made
  <2>2. CASE o.pass # p
    BY <1>0, <1>r, <2>2 DEF ReleasePrevious, Made
  <2> QED BY <2>1, <2>2
<1>6. ASSUME NEW p \in Pass, EndScan(p) PROVE Made(o)'
  <2>1. CASE o.pass = p
    <3>1. o.stage \in {"read", "probe"}
      BY <1>0, <1>6, <2>1 DEF EndScan, Made
    <3>2. scan'[p].phase \in {"sweep", "cloud"}
      BY <1>0, <1>6 DEF EndScan
    <3> QED BY <2>1, <3>1, <3>2 DEF Made
  <2>2. CASE o.pass # p
    BY <1>0, <1>6, <2>2 DEF EndScan, Made
  <2> QED BY <2>1, <2>2
<1>7. ASSUME NEW p \in Pass, EndSweep(p) PROVE Made(o)'
  <2>1. scan'[p].phase \in {"cloud", "done"}
    BY <1>0, <1>7 DEF EndSweep
  <2> QED BY <1>0, <1>7, <2>1 DEF EndSweep, Made
<1>8. ASSUME NEW p \in Pass, AttachCloud(p) PROVE Made(o)'
  <2>1. scan'[p].phase = "done"
    BY <1>0, <1>8 DEF AttachCloud
  <2> QED BY <1>0, <1>8, <2>1 DEF AttachCloud, Made
<1>9. CASE Rediscover \/ DiscoverSubnet
  BY <1>0, <1>9 DEF Rediscover, DiscoverSubnet, Made
<1>10. \A d \in Device, h \in Host \cup {Off} : Move(d, h) => UNCHANGED scan
  BY DEF Move
<1>11. \A s \in storing : EndStore(s) => UNCHANGED scan
  BY DEF EndStore
<1> QED BY <1>1, <1>2, <1>3, <1>4, <1>5, <1>r, <1>6, <1>7, <1>8, <1>9, <1>10,
           <1>11 DEF Next, PassStep, vars

LEMMA OpenInit == Init => OpenInv
  BY DEF Init, OpenInv, CachedIsOpen, StoredNext, AllMade, LocalIds, Previous,
         Replaced, Startup, Blank, Pass

\* An object that is about to be made is not there yet.
LEMMA NewIsNew ==
  ASSUME TypeOK, OpenInv, NEW p \in Pass, NEW d \in Device, NEW h \in Host,
         scan[p].phase \in {"read", "probe", "sweep"}, h \in scan[p].todo
  PROVE  NewObj(p, d, h) \notin open \cup Cached \cup Previous \cup Replaced
<1>1. ~Made(NewObj(p, d, h))
  BY DEF Made, NewObj
<1>2. Cached \subseteq open
  BY CachedMeans DEF OpenInv, CachedIsOpen, LocalIds
<1> QED BY <1>1, <1>2 DEF OpenInv, AllMade

\* _store_device, entered with a new object.
LEMMA OpenAttach ==
  ASSUME TypeOK, OpenInv, NEW p \in Pass, NEW h \in Host, NEW ok \in BOOLEAN,
         Attach(p, h, ok)
  PROVE  CachedIsOpen' /\ StoredNext'
         /\ \A o \in open' \cup Previous' \cup Replaced' :
              \/ o \in open \cup Previous \cup Replaced
              \/ \E d \in Device : o = NewObj(p, d, h)
<1> USE DEF OpenInv
<1>0. /\ scan[p].phase \in {"read", "probe", "sweep"} /\ h \in scan[p].todo
  BY AttachStores
<1>1. Cached \subseteq open
  BY CachedMeans DEF CachedIsOpen, LocalIds
<1>2. Previous' = Previous
  <2>1. \A q \in Pass : scan'[q].prev = scan[q].prev
    BY TypeParts DEF Attach, ScanType, Progress
  <2> QED BY <2>1 DEF Previous
<1>3. CASE UNCHANGED <<cacheVars, mishap>>
  <2>1. CachedIsOpen' /\ Cached' = Cached /\ Replaced' = Replaced
    BY <1>3 DEF cacheVars, CachedIsOpen, LocalIds, Cached, Replaced
  <2>2. StoredNext'
    BY <1>2, <1>3, <2>1 DEF cacheVars, StoredNext
  <2> QED BY <1>2, <1>3, <2>1, <2>2 DEF cacheVars
<1>4. ASSUME NEW d \in Device, NewObj(p, d, h) \in Obj,
             Store(d, NewObj(p, d, h))
      PROVE  /\ CachedIsOpen' /\ StoredNext'
             /\ Replaced' \subseteq Replaced \cup open
             /\ open' = open \cup {NewObj(p, d, h)}
  <2> DEFINE o == NewObj(p, d, h)
  <2>1. o \notin open \cup Cached \cup Previous \cup Replaced
    BY <1>0, NewIsNew
  <2>2. o \in Obj /\ o.dev = d /\ o # Empty
    BY <1>4, EmptyIsNoObject DEF NewObj
  <2>3. Store(d, o)
    BY <1>4
  <2> HIDE DEF o
  <2>4. CASE devices[d] = Empty
    <3>1. /\ devices' = [devices EXCEPT ![d] = o]
          /\ open' = open \cup {o} /\ storing' = storing
      BY <2>3, <2>4 DEF Store
    <3>2. CachedIsOpen'
      BY <2>2, <3>1 DEF CachedIsOpen, LocalIds, TypeOK
    <3>3. Cached' \subseteq Cached \cup {o} /\ Replaced' = Replaced
      BY <3>1, CachedMeans, CachedMeansNext DEF TypeOK, Replaced
    <3>4. StoredNext'
      BY <1>2, <2>1, <3>1, <3>3 DEF StoredNext
    <3> QED BY <3>1, <3>2, <3>3, <3>4 DEF o
  <2>5. CASE devices[d] # Empty
    <3> DEFINE n == [obj |-> o, old |-> devices[d]]
    <3>1. /\ UNCHANGED devices
          /\ open' = open \cup {o} /\ storing' = storing \cup {n}
      BY <2>3, <2>5 DEF Store
    <3>2. /\ n.obj = o /\ n.old = devices[d]
          /\ n.old.dev = d /\ n.old \in Cached /\ n.old \in open
      BY <1>1, <2>5, CachedMeans DEF CachedIsOpen, LocalIds
    <3> HIDE DEF n
    <3>3. CachedIsOpen' /\ Cached' = Cached
      BY <3>1 DEF CachedIsOpen, LocalIds, Cached
    <3>4. Replaced' = Replaced \cup {n.old}
      BY <3>1 DEF Replaced
    <3>5. ASSUME NEW s \in storing
          PROVE  /\ s.obj # o /\ s.obj # n.old
                 /\ s.obj \in open /\ s.old.dev = s.obj.dev
                 /\ s.obj \notin Cached \cup Previous \cup Replaced
                 /\ \A t \in storing : t.obj = s.obj => t = s
      BY <2>1, <3>2 DEF StoredNext
    <3>6. o \notin Cached \cup Previous \cup Replaced \cup {n.old}
      BY <2>1, <3>2
    <3>7. StoredNext'
      BY <1>2, <2>2, <3>1, <3>2, <3>3, <3>4, <3>5, <3>6 DEF StoredNext
    <3> QED BY <3>1, <3>2, <3>3, <3>4, <3>7 DEF o
  <2> QED BY <2>4, <2>5
<1> QED BY <1>2, <1>3, <1>4, AttachStores

LEMMA OpenNext == TypeOK /\ OpenInv /\ [Next]_vars => OpenInv'
<1> SUFFICES ASSUME TypeOK, OpenInv, [Next]_vars PROVE OpenInv'
  OBVIOUS
<1> USE DEF OpenInv, worldVars, cacheVars, fileVars
<1>a. scan \in [Pass -> Progress]
  BY TypeParts DEF ScanType
<1>b. Cached \subseteq open
  BY CachedMeans DEF CachedIsOpen, LocalIds
\* What was made stays made, unless the process restarts.
<1>c. ASSUME ~Restart, CachedIsOpen', StoredNext',
             open' \cup Previous' \cup Replaced'
               \subseteq open \cup Previous \cup Replaced
      PROVE  OpenInv'
  <2>1. open \cup Previous \cup Replaced \subseteq Obj
    BY ObjectsType DEF TypeOK
  <2>2. ASSUME NEW o \in open \cup Previous \cup Replaced PROVE Made(o)'
    BY <1>c, <2>1, MadeStays DEF AllMade
  <2> QED BY <1>c, <2>2 DEF AllMade
<1>d. ASSUME ~Restart, UNCHANGED <<devices, open, storing>>,
             Previous' \subseteq Previous
      PROVE  OpenInv'
  <2>1. CachedIsOpen' /\ Cached' = Cached /\ Replaced' = Replaced
    BY <1>d DEF CachedIsOpen, LocalIds, Cached, Replaced
  <2>2. StoredNext'
    BY <1>d, <2>1 DEF StoredNext
  <2> QED BY <1>c, <1>d, <2>1, <2>2
<1>1. CASE Restart
  BY <1>1 DEF Restart, CachedIsOpen, StoredNext, AllMade, LocalIds, Previous,
              Replaced, Startup, Blank, Pass
<1>2. ASSUME NEW p \in Pass, NEW H \in SUBSET Host, Found(p, H), ~Restart
      PROVE  OpenInv'
  <2>1. /\ devices' = [d \in Device |-> Empty] /\ UNCHANGED <<open, storing>>
        /\ \A q \in Pass : scan'[q].prev = IF q = p THEN Cached
                                                    ELSE scan[q].prev
    BY <1>2, <1>a DEF Found, Progress
  <2>2. CachedIsOpen' /\ Cached' = {} /\ Replaced' = Replaced
    BY <2>1 DEF CachedIsOpen, LocalIds, Cached, Replaced
  <2>3. Previous' \subseteq Previous \cup Cached
    BY <2>1, CachedMeans, CachedMeansNext
  <2>4. StoredNext'
    BY <2>1, <2>2, <2>3 DEF StoredNext
  <2> QED BY <1>b, <1>c, <1>2, <2>1, <2>2, <2>3, <2>4
<1>3. ASSUME NEW p \in Pass, NEW h \in Host, NEW ok \in BOOLEAN,
             Attach(p, h, ok), ~Restart
      PROVE  OpenInv'
  <2>1. scan[p].phase \in {"read", "probe", "sweep"}
    BY <1>3, AttachStores
  <2>2. /\ scan'[p].phase = scan[p].phase /\ h \notin scan'[p].todo
    BY <1>3, <1>a DEF Attach, Progress
  <2>3. ASSUME NEW o, NEW d \in Device, o = NewObj(p, d, h) PROVE Made(o)'
    BY <2>1, <2>2, <2>3 DEF Made, NewObj
  <2>4. ASSUME NEW o \in open \cup Previous \cup Replaced PROVE Made(o)'
    <3>1. o \in Obj
      BY ObjectsType DEF TypeOK
    <3> QED BY <1>3, <3>1, MadeStays DEF AllMade
  <2> QED BY <1>3, <2>3, <2>4, OpenAttach DEF AllMade
<1>4. ASSUME NEW s \in storing, EndStore(s), ~Restart PROVE OpenInv'
  <2>1. /\ devices' = [devices EXCEPT ![s.obj.dev] = s.obj]
        /\ open' = open \ {s.old} /\ storing' = storing \ {s}
        /\ UNCHANGED scan
    BY <1>4 DEF EndStore
  <2>2. /\ s.obj \in Obj /\ s.obj.dev \in Device /\ s.obj \in open
        /\ s.obj # s.old /\ s.old.dev = s.obj.dev
    BY DEF TypeOK, Obj, StoredNext, Replaced
  <2>3. CachedIsOpen'
    <3>1. ASSUME NEW d \in Device, devices'[d] # Empty
          PROVE  devices'[d].dev = d /\ devices'[d] \in open'
      <4>1. CASE d = s.obj.dev
        BY <2>1, <2>2, <4>1 DEF TypeOK
      <4>2. CASE d # s.obj.dev
        <5>1. devices'[d] = devices[d]
          BY <2>1, <4>2 DEF TypeOK
        <5>2. devices[d].dev = d /\ devices[d] \in open
          BY <3>1, <5>1 DEF CachedIsOpen, LocalIds
        <5> QED BY <2>1, <2>2, <4>2, <5>1, <5>2
      <4> QED BY <4>1, <4>2
    <3> QED BY <3>1 DEF CachedIsOpen, LocalIds
  <2>4. Cached' \subseteq Cached \cup {s.obj}
    BY <2>1, CachedMeans, CachedMeansNext DEF TypeOK
  <2>5. Replaced' \subseteq Replaced /\ Previous' = Previous
    BY <2>1 DEF Replaced, Previous
  <2>6. ASSUME NEW t \in storing, t # s
        PROVE  t.obj \in open \ {s.old} /\ t.obj # s.obj
    BY <2>6 DEF StoredNext, Replaced
  <2>7. StoredNext'
    BY <2>1, <2>4, <2>5, <2>6 DEF StoredNext
  <2> QED BY <1>c, <1>4, <2>1, <2>3, <2>5, <2>7
<1>5. ASSUME NEW p \in Pass, ReleasePrevious(p), ~Restart PROVE OpenInv'
  <2>1. /\ UNCHANGED <<devices, storing>>
        /\ open' = open \ (scan[p].prev \ Cached)
    BY <1>5 DEF ReleasePrevious, Released
  <2>2. Cached' = Cached /\ Replaced' = Replaced
    BY <2>1 DEF Cached, Replaced
  <2>3. Previous' \subseteq Previous
    <3>1. \A q \in Pass : scan'[q].prev \subseteq scan[q].prev
      BY <1>5, <1>a DEF ReleasePrevious, Progress
    <3> QED BY <3>1, CachedMeans, CachedMeansNext
  <2>4. scan[p].prev \subseteq Previous
    BY DEF Previous
  <2>5. CachedIsOpen'
    BY <2>1, CachedMeans DEF CachedIsOpen, LocalIds
  <2>6. StoredNext'
    BY <2>1, <2>2, <2>3, <2>4 DEF StoredNext
  <2> QED BY <1>c, <1>5, <2>1, <2>2, <2>3, <2>5, <2>6
<1>6. ASSUME NEW p \in Pass, ~Restart,
             \/ ScanFails(p) \/ BeginProbes(p) \/ EndScan(p)
             \/ EndSweep(p) \/ AttachCloud(p)
      PROVE  OpenInv'
  <2>1. UNCHANGED <<devices, open, storing>>
    BY <1>6 DEF ScanFails, BeginProbes, EndScan, EndSweep, AttachCloud
  <2>2. \A q \in Pass : scan'[q].prev \subseteq scan[q].prev
    <3>1. CASE ScanFails(p) \/ BeginProbes(p)
      BY <3>1, <1>a DEF ScanFails, BeginProbes, Progress
    <3>2. CASE EndScan(p) \/ EndSweep(p) \/ AttachCloud(p)
      BY <3>2, <1>a DEF EndScan, EndSweep, AttachCloud, Blank
    <3> QED BY <1>6, <3>1, <3>2
  <2>3. Previous' \subseteq Previous
    BY <2>2, CachedMeans, CachedMeansNext
  <2> QED BY <1>d, <1>6, <2>1, <2>3
<1>7. ASSUME Rediscover \/ DiscoverSubnet, ~Restart PROVE OpenInv'
  <2>1. UNCHANGED <<devices, open, storing>>
    BY <1>7 DEF Rediscover, DiscoverSubnet
  <2>2. \A q \in Pass : scan'[q].prev \subseteq scan[q].prev
    BY <1>7, <1>a DEF Rediscover, DiscoverSubnet, Progress
  <2>3. Previous' \subseteq Previous
    BY <2>2, CachedMeans, CachedMeansNext
  <2> QED BY <1>d, <1>7, <2>1, <2>3
<1>8. ASSUME ~Restart, UNCHANGED <<devices, open, storing, scan>>
      PROVE  OpenInv'
  <2>1. Previous' = Previous
    BY <1>8 DEF Previous
  <2> QED BY <1>d, <1>8, <2>1
<1>9. ASSUME NEW d \in Device, NEW h \in Host \cup {Off}, Move(d, h)
      PROVE  UNCHANGED <<devices, open, storing, scan>>
  BY <1>9 DEF Move
<1>10. UNCHANGED vars => UNCHANGED <<devices, open, storing, scan>>
  BY DEF vars
<1> QED BY <1>1, <1>2, <1>3, <1>4, <1>5, <1>6, <1>7, <1>8, <1>9, <1>10
        DEF Next, PassStep

\* discover_all: "never closing a device we kept": however the passes overlap,
\* none of them disconnects an object that is cached.
THEOREM CachedIsOpenHolds == Spec => []CachedIsOpen
<1>1. OpenInv => CachedIsOpen
  BY DEF OpenInv
<1> QED BY <1>1, TypeInit, TypeNext, OpenInit, OpenNext, PTL DEF Spec


\* Only a pass that reads or probes has a previous cache to release.
PreviousWhileReading ==
  \A p \in Pass : scan[p].phase \notin {"read", "probe"} => scan[p].prev = {}

\* Alone with a device, _store_device finds its slot as it left it, or emptied
\* by a pass that took the superseded object along.
SlotKept ==
  \A s \in storing :
    /\ devices[s.obj.dev] \in {s.old, Empty}
    /\ \A t \in storing : t.obj.dev = s.obj.dev => t = s

SessionInv ==
  PreviousWhileReading /\ ("race" \notin mishap => SlotKept) /\ SessionsHeld

-----------------------------------------------------------------------------
(* No session is lost *)

Held == Cached \cup Previous \cup Replaced \cup {s.obj : s \in storing}

LEMMA HeldNext ==
  \A o : o \in Held' <=> \/ o \in Cached' \cup Previous'
                         \/ \E s \in storing' : o = s.obj \/ o = s.old
  BY DEF Held, Replaced

LEMMA HeldMeans ==
  /\ SessionsHeld <=> ("race" \notin mishap => open \subseteq Held)
  /\ SessionsHeld' <=> ("race" \notin mishap' => open' \subseteq Held')
<1> DEFINE Kept == UNION {scan[p].prev : p \in Pass}
           Moving == UNION {{s.obj, s.old} : s \in storing}
<1>1. /\ SessionsHeld <=>
           ("race" \notin mishap => open \subseteq Cached \cup Kept \cup Moving)
      /\ SessionsHeld' <=> ("race" \notin mishap' =>
                           open' \subseteq Cached' \cup Kept' \cup Moving')
  BY DEF SessionsHeld
<1>2. /\ \A o : o \in Moving <=> \E s \in storing : o = s.obj \/ o = s.old
      /\ \A o : o \in Moving' <=> \E s \in storing' : o = s.obj \/ o = s.old
  OBVIOUS
<1>3. Kept = Previous /\ Kept' = Previous'
  BY DEF Previous
<1>4. \A o : o \in Held <=> \/ o \in Cached \cup Previous
                            \/ \E s \in storing : o = s.obj \/ o = s.old
  BY DEF Held, Replaced
<1> HIDE DEF Kept, Moving
<1>5. /\ Cached \cup Kept \cup Moving = Held
      /\ Cached' \cup Kept' \cup Moving' = Held'
  BY <1>2, <1>3, <1>4, HeldNext
<1> QED BY <1>1, <1>5

LEMMA SessionInit == Init => SessionInv
<1> SUFFICES ASSUME Init PROVE SessionInv
  OBVIOUS
<1>1. PreviousWhileReading
  BY DEF Init, PreviousWhileReading, Startup, Blank, Pass
<1>2. SlotKept /\ open \subseteq Held
  BY DEF Init, SlotKept
<1> QED BY <1>1, <1>2, HeldMeans DEF SessionInv

\* What the passes do to their previous caches.
LEMMA PreviousNext ==
  TypeOK /\ PreviousWhileReading /\ [Next]_vars => PreviousWhileReading'
<1> SUFFICES ASSUME TypeOK, PreviousWhileReading, [Next]_vars
             PROVE  PreviousWhileReading'
  OBVIOUS
<1> USE DEF PreviousWhileReading
<1>0. scan \in [Pass -> Progress]
  BY TypeParts DEF ScanType
<1>1. ASSUME NEW p \in Pass, NEW H \in SUBSET Host, Found(p, H)
      PROVE  PreviousWhileReading'
  BY <1>0, <1>1 DEF Found, Progress
<1>2. ASSUME NEW p \in Pass, NEW h \in Host, NEW ok \in BOOLEAN,
             Attach(p, h, ok)
      PROVE  PreviousWhileReading'
  <2>1. \A q \in Pass : /\ scan'[q].phase = scan[q].phase
                        /\ scan'[q].prev = scan[q].prev
    BY <1>0, <1>2 DEF Attach, Progress
  <2> QED BY <2>1
<1>3. ASSUME NEW p \in Pass, ScanFails(p) \/ BeginProbes(p)
      PROVE  PreviousWhileReading'
  BY <1>0, <1>3 DEF ScanFails, BeginProbes, Progress
<1>4. ASSUME NEW p \in Pass, \/ ReleasePrevious(p) \/ EndScan(p)
                             \/ EndSweep(p) \/ AttachCloud(p)
      PROVE  PreviousWhileReading'
  <2>1. \A q \in Pass : scan'[q] = scan[q] \/ scan'[q].prev = {}
    <3>0. CASE ReleasePrevious(p)
      BY <1>0, <3>0 DEF ReleasePrevious, Progress
    <3>1. CASE EndScan(p)
      BY <1>0, <3>1 DEF EndScan, Blank
    <3>2. CASE EndSweep(p) \/ AttachCloud(p)
      BY <1>0, <3>2 DEF EndSweep, AttachCloud, Blank
    <3> QED BY <1>4, <3>0, <3>1, <3>2
  <2> QED BY <2>1
<1>5. CASE Rediscover \/ DiscoverSubnet
  BY <1>0, <1>5 DEF Rediscover, DiscoverSubnet, Blank, Progress
<1>6. CASE Restart
  BY <1>6 DEF Restart, Startup, Blank, Pass
<1>7. /\ \A d \in Device, h \in Host \cup {Off} : Move(d, h) => UNCHANGED scan
      /\ \A s \in storing : EndStore(s) => UNCHANGED scan
      /\ UNCHANGED vars => UNCHANGED scan
  BY DEF Move, EndStore, vars
<1> QED BY <1>1, <1>2, <1>3, <1>4, <1>5, <1>6, <1>7 DEF Next, PassStep

LEMMA SessionNext ==
  TypeOK /\ OpenInv /\ SessionInv /\ [Next]_vars => SessionInv'
<1> SUFFICES ASSUME TypeOK, OpenInv, SessionInv, [Next]_vars,
                    "race" \notin mishap'
             PROVE  SlotKept' /\ open' \subseteq Held'
  BY PreviousNext, HeldMeans DEF SessionInv
<1> USE DEF worldVars, cacheVars, fileVars
<1>a. scan \in [Pass -> Progress]
  BY TypeParts DEF ScanType
<1>b. ASSUME "race" \notin mishap PROVE SlotKept /\ open \subseteq Held
  BY <1>b, HeldMeans DEF SessionInv
\* A step that leaves the cache alone and releases what it no longer holds.
<1>c. ASSUME UNCHANGED <<devices, storing, mishap>>,
             open' \subseteq open,
             \A o \in Previous : o \in Previous' \cup Cached \/ o \notin open'
      PROVE  SlotKept' /\ open' \subseteq Held'
  <2>1. SlotKept /\ open \subseteq Held
    BY <1>b, <1>c
  <2>2. Cached' = Cached /\ Replaced' = Replaced
    BY <1>c DEF Cached, Replaced
  <2>3. SlotKept'
    BY <1>c, <2>1 DEF SlotKept
  <2> QED BY <1>c, <2>1, <2>2, <2>3 DEF Held
<1>1. ASSUME NEW p \in Pass, NEW H \in SUBSET Host, Found(p, H)
      PROVE  SlotKept' /\ open' \subseteq Held'
  <2>1. "race" \notin mishap
    BY <1>1 DEF Found
  <2>2. /\ devices' = [d \in Device |-> Empty] /\ UNCHANGED <<open, storing>>
        /\ \A q \in Pass : scan'[q].prev = IF q = p THEN Cached
                                                    ELSE scan[q].prev
    BY <1>1, <1>a DEF Found, Progress
  <2>3. scan[p].prev = {}
    BY <1>1 DEF SessionInv, PreviousWhileReading, Found
  <2>4. Cached \cup Previous \subseteq Previous'
    BY <2>2, <2>3, CachedMeans, CachedMeansNext
  <2>5. SlotKept'
    BY <1>b, <2>1, <2>2 DEF SlotKept, TypeOK, Obj
  <2>6. Replaced' = Replaced
    BY <2>2 DEF Replaced
  <2> QED BY <1>b, <2>1, <2>2, <2>4, <2>5, <2>6 DEF Held
<1>2. ASSUME NEW p \in Pass, NEW h \in Host, NEW ok \in BOOLEAN,
             Attach(p, h, ok)
      PROVE  SlotKept' /\ open' \subseteq Held'
  <2>1. Previous' = Previous
    <3>1. \A q \in Pass : scan'[q].prev = scan[q].prev
      BY <1>2, <1>a DEF Attach, Progress
    <3> QED BY <3>1 DEF Previous
  <2>2. CASE UNCHANGED <<cacheVars, mishap>>
    BY <1>c, <2>1, <2>2
  <2>3. ASSUME NEW d \in Device, NEW o \in Obj, o.dev = d, Store(d, o)
        PROVE  SlotKept' /\ open' \subseteq Held'
    <3>1. /\ "race" \notin mishap
          /\ \A s \in storing : s.obj.dev # d
      BY <2>3 DEF Store
    <3>2. SlotKept /\ open \subseteq Held /\ open' = open \cup {o}
      BY <1>b, <2>3, <3>1 DEF Store
    <3>3. CASE devices[d] = Empty
      <4>1. devices' = [devices EXCEPT ![d] = o] /\ storing' = storing
        BY <2>3, <3>3 DEF Store
      <4>2. Cached \cup {o} \subseteq Cached'
        BY <3>3, <4>1, CachedMeans, CachedMeansNext, EmptyIsNoObject
           DEF TypeOK
      <4>3. SlotKept'
        BY <3>1, <3>2, <4>1 DEF SlotKept, TypeOK, Obj
      <4>4. Replaced' = Replaced
        BY <4>1 DEF Replaced
      <4> QED BY <2>1, <3>2, <4>1, <4>2, <4>3, <4>4 DEF Held
    <3>4. CASE devices[d] # Empty
      <4> DEFINE n == [obj |-> o, old |-> devices[d]]
      <4>1. devices' = devices /\ storing' = storing \cup {n}
        BY <2>3, <3>4 DEF Store
      <4>2. n.obj = o /\ n.old = devices[d]
        OBVIOUS
      <4> HIDE DEF n
      <4>3. Cached' = Cached
        BY <4>1 DEF Cached
      <4>4. SlotKept'
        BY <2>3, <3>1, <3>2, <4>1, <4>2 DEF SlotKept
      <4>5. Replaced \subseteq Replaced'
        BY <4>1 DEF Replaced
      <4> QED BY <2>1, <3>2, <4>1, <4>2, <4>3, <4>4, <4>5 DEF Held
    <3> QED BY <3>3, <3>4
  <2>4. \A d \in Device : NewObj(p, d, h).dev = d
    BY DEF NewObj
  <2> QED BY <1>2, <2>2, <2>3, <2>4, AttachStores
<1>3. ASSUME NEW s \in storing, EndStore(s)
      PROVE  SlotKept' /\ open' \subseteq Held'
  <2>1. /\ devices' = [devices EXCEPT ![s.obj.dev] = s.obj]
        /\ open' = open \ {s.old} /\ storing' = storing \ {s}
        /\ UNCHANGED <<scan, mishap>>
    BY <1>3 DEF EndStore
  <2>2. SlotKept /\ open \subseteq Held
    BY <1>b, <2>1
  <2>3. s.obj \in Obj /\ s.obj.dev \in Device
    BY DEF TypeOK, Obj
  <2>4. s.obj \in Cached'
    BY <2>1, <2>3, CachedMeansNext, EmptyIsNoObject DEF TypeOK
  <2>5. Cached \subseteq Cached' \cup {s.old}
    <3>1. ASSUME NEW d \in Device, devices[d] # Empty
          PROVE  devices[d] \in Cached' \cup {s.old}
      <4>1. CASE d = s.obj.dev
        BY <2>2, <3>1, <4>1 DEF SlotKept
      <4>2. CASE d # s.obj.dev
        BY <2>1, <3>1, <4>2, CachedMeansNext DEF TypeOK
      <4> QED BY <4>1, <4>2
    <3> QED BY <3>1, CachedMeans
  <2>6. Previous' = Previous
    BY <2>1 DEF Previous
  <2>7. \A t \in storing : t # s => t.obj.dev # s.obj.dev
    BY <2>2 DEF SlotKept
  <2>8. SlotKept'
    <3>1. ASSUME NEW t \in storing'
          PROVE  /\ t \in storing /\ devices'[t.obj.dev] = devices[t.obj.dev]
      BY <2>1, <2>7 DEF TypeOK, Obj
    <3> QED BY <2>1, <2>2, <3>1 DEF SlotKept
  <2>9. ASSUME NEW o \in open' PROVE o \in Held'
    <3>1. o \in Held /\ o # s.old
      BY <2>1, <2>2
    <3>2. \/ o \in Cached \/ o \in Previous
          \/ \E t \in storing : o = t.obj \/ o = t.old
      BY <3>1 DEF Held, Replaced
    <3> QED BY <2>1, <2>4, <2>5, <2>6, <3>1, <3>2, HeldNext
  <2> QED BY <2>8, <2>9
<1>4. ASSUME NEW p \in Pass, ReleasePrevious(p)
      PROVE  SlotKept' /\ open' \subseteq Held'
  <2>1. /\ UNCHANGED <<devices, storing, mishap>>
        /\ open' = open \ (scan[p].prev \ Cached)
        /\ \A q \in Pass : q # p => scan'[q].prev = scan[q].prev
    BY <1>4, <1>a DEF ReleasePrevious, Released, Progress
  <2>2. \A o \in Previous : o \in Previous' \cup Cached \/ o \notin open'
    BY <2>1, CachedMeans, CachedMeansNext
  <2> QED BY <1>c, <2>1, <2>2
<1>5. ASSUME NEW p \in Pass,
             \/ ScanFails(p) \/ BeginProbes(p) \/ EndScan(p)
             \/ EndSweep(p) \/ AttachCloud(p)
      PROVE  SlotKept' /\ open' \subseteq Held'
  <2>1. UNCHANGED <<devices, open, storing, mishap>>
    BY <1>5 DEF ScanFails, BeginProbes, EndScan, EndSweep, AttachCloud
  <2>2. \A q \in Pass : scan'[q].prev = scan[q].prev
    <3>1. CASE ScanFails(p) \/ BeginProbes(p)
      BY <3>1, <1>a DEF ScanFails, BeginProbes, Progress
    <3>2. CASE EndScan(p) \/ EndSweep(p) \/ AttachCloud(p)
      <4>1. scan[p].prev = {}
        BY <3>2 DEF EndScan, EndSweep, AttachCloud, SessionInv,
                    PreviousWhileReading
      <4> QED BY <3>2, <4>1, <1>a DEF EndScan, EndSweep, AttachCloud, Blank
    <3> QED BY <1>5, <3>1, <3>2
  <2>3. Previous' = Previous
    BY <2>2 DEF Previous
  <2> QED BY <1>c, <2>1, <2>3
<1>6. ASSUME Rediscover \/ DiscoverSubnet
      PROVE  SlotKept' /\ open' \subseteq Held'
  <2>1. UNCHANGED <<devices, open, storing, mishap>>
    BY <1>6 DEF Rediscover, DiscoverSubnet
  <2>2. \A q \in Pass : scan'[q].prev = scan[q].prev
    BY <1>6, <1>a DEF Rediscover, DiscoverSubnet, Progress
  <2>3. Previous' = Previous
    BY <2>2 DEF Previous
  <2> QED BY <1>c, <2>1, <2>3
<1>7. CASE Restart
  BY <1>7 DEF Restart, SlotKept
<1>8. ASSUME NEW d \in Device, NEW h \in Host \cup {Off}, Move(d, h)
      PROVE  SlotKept' /\ open' \subseteq Held'
  <2>1. UNCHANGED <<devices, open, storing, scan>> /\ "race" \notin mishap
    BY <1>8 DEF Move
  <2>2. Held' = Held
    BY <2>1 DEF Held, Cached, Previous, Replaced
  <2> QED BY <1>b, <2>1, <2>2 DEF SlotKept
<1>9. CASE UNCHANGED vars
  <2>1. Previous' = Previous
    BY <1>9 DEF vars, Previous
  <2> QED BY <1>9, <1>c, <2>1 DEF vars
<1> QED BY <1>1, <1>2, <1>3, <1>4, <1>5, <1>6, <1>7, <1>8, <1>9
        DEF Next, PassStep

\* Every open session is in the cache or in the hands of a pass that will store
\* or release it, unless two passes stored one device at the same time.
THEOREM SessionsHeldHolds == Spec => []SessionsHeld
<1>1. SessionInv => SessionsHeld
  BY DEF SessionInv
<1> QED BY <1>1, TypeInit, TypeNext, OpenInit, OpenNext, SessionInit,
           SessionNext, PTL DEF Spec

-----------------------------------------------------------------------------
(* What a step does to the cache                                           *)

\* Slot d of the cache, and the snapshot of its host, get object o.
Filed(d, o) ==
  /\ devices' = [devices EXCEPT ![d] = o]
  /\ snapshots' = [snapshots EXCEPT ![o.host] = d]

\* An object of a device that answers is made, and stored or about to be.
AttachedBy(p, d, h) ==
  LET o == NewObj(p, d, h) IN
  /\ o \in Obj /\ where[d] = h
  /\ \/ devices[d] = Empty /\ Filed(d, o) /\ UNCHANGED storing
     \/ /\ devices[d] # Empty /\ UNCHANGED <<devices, snapshots>>
        /\ storing' = storing \cup {[obj |-> o, old |-> devices[d]]}

Attached(d, h) == \E p \in Pass : AttachedBy(p, d, h)

LEMMA AttachFiles ==
  ASSUME TypeOK, NEW p \in Pass, NEW h \in Host, NEW ok \in BOOLEAN,
         Attach(p, h, ok)
  PROVE  /\ UNCHANGED <<worldVars, fileVars>>
         /\ IF ok THEN \E d \in At(h) : Attached(d, h)
                  ELSE UNCHANGED <<devices, storing, snapshots>>
         /\ h \in scan[p].todo /\ scan[p].phase \in {"read", "probe", "sweep"}
         /\ \A q \in Pass :
              /\ scan'[q].phase = scan[q].phase
              /\ scan'[q].todo = IF q = p THEN scan[q].todo \ {h}
                                          ELSE scan[q].todo
              /\ scan'[q].found = IF q = p /\ ok THEN scan[q].found \cup At(h)
                                                 ELSE scan[q].found
         /\ At(h) # {} /\ ~ok => calm' = FALSE
<1>0. scan \in [Pass -> Progress]
  BY TypeParts DEF ScanType
<1>1. UNCHANGED <<worldVars, fileVars>>
  BY DEF Attach
<1>2. h \in scan[p].todo /\ scan[p].phase \in {"read", "probe", "sweep"}
  BY DEF Attach
<1>3. \A q \in Pass :
        /\ scan'[q].phase = scan[q].phase
        /\ scan'[q].todo = IF q = p THEN scan[q].todo \ {h} ELSE scan[q].todo
        /\ scan'[q].found = IF q = p /\ ok THEN scan[q].found \cup At(h)
                                           ELSE scan[q].found
  BY <1>0 DEF Attach, Progress
<1>4. CASE ok
  <2>1. PICK d \in At(h) : Store(d, NewObj(p, d, h))
    BY <1>4 DEF Attach, Store, NewObj
  <2>2. d \in Device /\ where[d] = h
    BY DEF At
  <2>3. NewObj(p, d, h) \in Obj /\ NewObj(p, d, h).host = h
    BY <1>2, <2>2 DEF NewObj, Obj
  <2>4. Attached(d, h)
    BY <2>1, <2>2, <2>3, Zenon DEF Attached, AttachedBy, Filed, Store
  <2> QED BY <1>1, <1>2, <1>3, <1>4, <2>4
<1>5. CASE ~ok
  <2>1. UNCHANGED <<devices, storing, snapshots>>
    BY <1>5 DEF Attach, cacheVars
  <2>2. At(h) # {} => calm' = FALSE
    BY <1>5, Zenon DEF Attach, Event
  <2> QED BY <1>1, <1>2, <1>3, <1>5, <2>1, <2>2
<1> QED BY <1>4, <1>5

\* The cache is emptied, filled by one object, or left alone.
LEMMA CacheStep ==
  ASSUME TypeOK, [Next]_vars
  PROVE  \/ UNCHANGED <<devices, storing, snapshots>>
         \/ /\ devices' = [d \in Device |-> Empty]
            /\ \/ snapshots' = saved /\ storing' = {}
               \/ UNCHANGED <<storing, snapshots>>
            /\ UNCHANGED worldVars
         \/ \E d \in Device, h \in Host :
              Attached(d, h) /\ UNCHANGED worldVars
         \/ \E s \in storing :
              /\ Filed(s.obj.dev, s.obj) /\ storing' = storing \ {s}
              /\ UNCHANGED worldVars
<1> USE DEF cacheVars, worldVars
<1>1. ASSUME NEW p \in Pass, NEW H \in SUBSET Host, Found(p, H)
      PROVE  /\ devices' = [d \in Device |-> Empty]
             /\ UNCHANGED <<storing, snapshots>> /\ UNCHANGED worldVars
  BY <1>1 DEF Found
<1>2. ASSUME NEW p \in Pass, NEW h \in Host, NEW ok \in BOOLEAN,
             Attach(p, h, ok)
      PROVE  \/ UNCHANGED <<devices, storing, snapshots>>
             \/ \E d \in Device : Attached(d, h) /\ UNCHANGED worldVars
  <2>1. At(h) \subseteq Device
    BY DEF At
  <2> QED BY <1>2, <2>1, AttachFiles, Zenon
<1>3. ASSUME NEW s \in storing, EndStore(s)
      PROVE  /\ Filed(s.obj.dev, s.obj) /\ storing' = storing \ {s}
             /\ UNCHANGED worldVars
  BY <1>3 DEF EndStore, Filed
<1>4. ASSUME NEW p \in Pass, \/ ScanFails(p) \/ BeginProbes(p)
                             \/ ReleasePrevious(p) \/ EndScan(p)
                             \/ EndSweep(p) \/ AttachCloud(p)
      PROVE  UNCHANGED <<devices, storing, snapshots>>
  BY <1>4 DEF ScanFails, BeginProbes, ReleasePrevious, EndScan, EndSweep,
     AttachCloud
<1>5. ASSUME NEW d \in Device, NEW h \in Host \cup {Off}, Move(d, h)
      PROVE  UNCHANGED <<devices, storing, snapshots>>
  BY <1>5 DEF Move
<1>6. Rediscover \/ DiscoverSubnet => UNCHANGED <<devices, storing, snapshots>>
  BY DEF Rediscover, DiscoverSubnet
<1>7. CASE Restart
  BY <1>7 DEF Restart
<1>8. CASE UNCHANGED vars
  BY <1>8 DEF vars
<1> QED BY <1>1, <1>2, <1>3, <1>4, <1>5, <1>6, <1>7, <1>8 DEF Next, PassStep

\* Only Move changes where the devices are.
LEMMA WorldStep ==
  ASSUME [Next]_vars
  PROVE  \/ UNCHANGED worldVars
         \/ \E d \in Device, h \in Host \cup {Off} : Move(d, h)
  BY DEF Next, PassStep, Found, ScanFails, Attach, EndStore, BeginProbes,
     ReleasePrevious, EndScan, EndSweep, AttachCloud, Rediscover,
     DiscoverSubnet, Restart, vars

\* What happened has happened.
LEMMA MishapGrows == [Next]_vars => mishap \subseteq mishap'
<1> SUFFICES ASSUME [Next]_vars PROVE mishap \subseteq mishap'
  OBVIOUS
<1>1. ASSUME NEW p \in Pass, NEW h \in Host, NEW ok \in BOOLEAN,
             Attach(p, h, ok)
      PROVE  mishap \subseteq mishap'
  BY <1>1 DEF Attach, cacheVars
<1> QED
  BY <1>1 DEF Next, PassStep, Found, ScanFails, EndStore, BeginProbes,
     ReleasePrevious, EndScan, EndSweep, AttachCloud, Rediscover,
     DiscoverSubnet, Restart, Move, vars

\* The files are written when a broadcast pass or a sweep ends.
LEMMA FileStep ==
  ASSUME [Next]_vars
  PROVE  \/ UNCHANGED fileVars
         \/ \E p \in Pass : EndScan(p) \/ EndSweep(p)
<1>1. ASSUME NEW p \in Pass, NEW h \in Host, NEW ok \in BOOLEAN,
             Attach(p, h, ok)
      PROVE  UNCHANGED fileVars
  BY <1>1 DEF Attach
<1> QED
  BY <1>1 DEF Next, PassStep, Found, ScanFails, EndStore, BeginProbes,
     ReleasePrevious, AttachCloud, Rediscover, DiscoverSubnet, Restart, Move,
     vars, fileVars

-----------------------------------------------------------------------------
(* A device the home knows stays listed *)

\* No two devices answer at one address.
OneHolder == \A d, e \in Device : where[d] = where[e] => d = e \/ where[d] = Off

\* Every address in the cache, in the hands of a pass or in a snapshot is one
\* its device has had.
CacheHeld ==
  /\ \A d \in LocalIds : <<d, devices[d].host>> \in held
  /\ \A s \in storing : <<s.obj.dev, s.obj.host>> \in held
  /\ \A h \in Host : snapshots[h] # None => <<snapshots[h], h>> \in held

AddressesHeld ==
  /\ \A d \in Device : where[d] # Off => <<d, where[d]>> \in held
  /\ CacheHeld
  /\ \A h \in Host : saved[h] # None => <<saved[h], h>> \in held

\* An address had one device so far, unless one was reused.
OneOwner ==
  "reuse" \notin mishap =>
    \A d, e \in Device, h \in Host :
      <<d, h>> \in held /\ <<e, h>> \in held => d = e

AddressInv == OneHolder /\ AddressesHeld /\ OneOwner

LEMMA AddressesInit == Init => AddressInv
<1> SUFFICES ASSUME Init PROVE AddressInv
  OBVIOUS
<1>1. \A d \in Device : \A h : <<d, h>> \in held <=> where[d] = h /\ h # Off
  BY DEF Init
<1>2. OneHolder
  BY DEF Init, OneHolder
<1>3. AddressesHeld
  BY <1>1 DEF Init, AddressesHeld, CacheHeld, LocalIds
<1>4. OneOwner
  BY <1>1, <1>2 DEF OneOwner, OneHolder
<1> QED BY <1>2, <1>3, <1>4 DEF AddressInv

\* A step of the network.
LEMMA AddressesMove ==
  ASSUME TypeOK, AddressInv, NEW d \in Device, NEW h \in Host \cup {Off},
         Move(d, h)
  PROVE  AddressInv'
<1> USE DEF AddressInv
<1>1. /\ where' = [where EXCEPT ![d] = h]
      /\ held' = IF h = Off THEN held ELSE held \cup {<<d, h>>}
      /\ UNCHANGED <<devices, storing, snapshots, saved>>
      /\ h # Off => \A e \in Device : where[e] # h
  BY DEF Move, cacheVars, fileVars, At
<1>2. where \in [Device -> Host \cup {Off}]
  BY DEF TypeOK
<1>3. OneHolder'
  BY <1>1, <1>2 DEF OneHolder
<1>4. AddressesHeld'
  <2>1. \A e \in Device : where'[e] # Off => <<e, where'[e]>> \in held'
    BY <1>1, <1>2 DEF AddressesHeld, CacheHeld
  <2>2. held \subseteq held'
    BY <1>1
  <2> QED BY <1>1, <2>1, <2>2 DEF AddressesHeld, CacheHeld, LocalIds
<1>5. OneOwner'
  <2>1. CASE \E e \in Device \ {d} : <<e, h>> \in held
    BY <2>1 DEF OneOwner, Move
  <2>2. CASE \A e \in Device \ {d} : <<e, h>> \notin held
    <3>1. mishap' = mishap
      BY <2>2 DEF Move
    <3> QED BY <1>1, <2>2, <3>1 DEF OneOwner
  <2> QED BY <2>1, <2>2
<1> QED BY <1>3, <1>4, <1>5

\* The cache gets an object of a device that answers, or had it in hand.
LEMMA FiledStays ==
  ASSUME TypeOK, NEW d \in Device, NEW o \in Obj, Filed(d, o)
  PROVE  /\ LocalIds' = LocalIds \cup {d} /\ devices'[d] = o
         /\ \A e \in Device \ {d} : devices'[e] = devices[e]
         /\ snapshots'[o.host] = d
         /\ \A h \in Host \ {o.host} : snapshots'[h] = snapshots[h]
<1>1. devices \in [Device -> Obj \cup {Empty}]
      /\ snapshots \in [Host -> Device \cup {None}] /\ o.host \in Host
  BY DEF TypeOK, Obj
<1>2. /\ devices'[d] = o /\ snapshots'[o.host] = d
      /\ \A e \in Device \ {d} : devices'[e] = devices[e]
      /\ \A h \in Host \ {o.host} : snapshots'[h] = snapshots[h]
  BY <1>1 DEF Filed
<1> QED BY <1>2, EmptyIsNoObject DEF LocalIds

LEMMA AddressesNext == TypeOK /\ AddressInv /\ [Next]_vars => AddressInv'
<1> SUFFICES ASSUME TypeOK, AddressInv, [Next]_vars PROVE AddressInv'
  OBVIOUS
<1>1. ASSUME NEW d \in Device, NEW h \in Host \cup {Off}, Move(d, h)
      PROVE  AddressInv'
  BY <1>1, AddressesMove
<1>2. CASE UNCHANGED worldVars
  <2> USE DEF AddressInv
  <2>1. where' = where /\ held' = held
    BY <1>2 DEF worldVars
  <2>2. OneHolder'
    BY <2>1 DEF OneHolder
  <2>3. OneOwner'
    BY <2>1, MishapGrows DEF OneOwner
  <2>4. \A h \in Host : saved'[h] # None => <<saved'[h], h>> \in held
    <3>1. saved' = saved \/ saved' = snapshots
      BY FileStep DEF EndScan, EndSweep, Persist, fileVars
    <3> QED BY <3>1 DEF AddressesHeld, CacheHeld
  <2>5. CacheHeld'
    <3>1. CASE UNCHANGED <<devices, storing, snapshots>>
      BY <2>1, <3>1 DEF AddressesHeld, CacheHeld, LocalIds
    <3>2. CASE /\ devices' = [d \in Device |-> Empty]
               /\ \/ snapshots' = saved /\ storing' = {}
                  \/ UNCHANGED <<storing, snapshots>>
      BY <2>1, <3>2 DEF AddressesHeld, CacheHeld, LocalIds
    <3>3. ASSUME NEW d \in Device, NEW o \in Obj, Filed(d, o),
                 <<d, o.host>> \in held, storing' \subseteq storing
          PROVE  CacheHeld'
      <4>1. /\ LocalIds' = LocalIds \cup {d} /\ devices'[d] = o
            /\ \A e \in Device \ {d} : devices'[e] = devices[e]
            /\ snapshots'[o.host] = d
            /\ \A h \in Host \ {o.host} : snapshots'[h] = snapshots[h]
        BY <3>3, FiledStays
      <4>2. \A e \in LocalIds' : <<e, devices'[e].host>> \in held
        BY <3>3, <4>1 DEF AddressesHeld, CacheHeld, LocalIds
      <4>3. \A h \in Host :
              snapshots'[h] # None => <<snapshots'[h], h>> \in held
        BY <3>3, <4>1 DEF AddressesHeld, CacheHeld
      <4> QED BY <2>1, <3>3, <4>2, <4>3 DEF AddressesHeld, CacheHeld
    <3>4. ASSUME NEW d \in Device, NEW h \in Host, Attached(d, h)
          PROVE  CacheHeld'
      <4>1. PICK p \in Pass : AttachedBy(p, d, h)
        BY <3>4 DEF Attached
      <4> DEFINE o == NewObj(p, d, h)
      <4>2. o \in Obj /\ o.dev = d /\ o.host = h /\ <<d, h>> \in held
        BY <4>1 DEF AttachedBy, NewObj, AddressesHeld
      <4>5. \/ Filed(d, o) /\ UNCHANGED storing
            \/ /\ UNCHANGED <<devices, snapshots>>
               /\ storing' = storing \cup {[obj |-> o, old |-> devices[d]]}
        BY <4>1 DEF AttachedBy
      <4> HIDE DEF o
      <4>3. CASE Filed(d, o) /\ UNCHANGED storing
        BY <3>3, <4>2, <4>3
      <4>4. CASE /\ UNCHANGED <<devices, snapshots>>
                 /\ storing' = storing \cup {[obj |-> o, old |-> devices[d]]}
        BY <2>1, <4>2, <4>4 DEF AddressesHeld, CacheHeld, LocalIds
      <4> QED BY <4>3, <4>4, <4>5
    <3>5. ASSUME NEW s \in storing, Filed(s.obj.dev, s.obj),
                 storing' = storing \ {s}
          PROVE  CacheHeld'
      <4>1. s.obj \in Obj /\ s.obj.dev \in Device
        BY DEF TypeOK, Obj
      <4> QED BY <3>3, <3>5, <4>1 DEF AddressesHeld, CacheHeld
    <3> QED BY <3>1, <3>2, <3>4, <3>5, CacheStep
  <2>6. AddressesHeld'
    BY <2>1, <2>4, <2>5 DEF AddressesHeld
  <2> QED BY <2>2, <2>3, <2>6
<1> QED BY <1>1, <1>2, WorldStep

\* What becomes of the slots and the snapshots: nothing, all slots are emptied,
\* or one is filled.
LEMMA SlotStep ==
  ASSUME TypeOK, [Next]_vars
  PROVE  \/ UNCHANGED <<devices, snapshots>>
         \/ LocalIds' = {} /\ (snapshots' = saved \/ snapshots' = snapshots)
         \/ \E d \in Device, o \in Obj : Filed(d, o)
<1>1. CASE UNCHANGED <<devices, storing, snapshots>>
  BY <1>1
<1>2. CASE /\ devices' = [d \in Device |-> Empty]
           /\ \/ snapshots' = saved /\ storing' = {}
              \/ UNCHANGED <<storing, snapshots>>
  BY <1>2 DEF LocalIds
<1>3. ASSUME NEW d \in Device, NEW h \in Host, Attached(d, h)
      PROVE  \/ UNCHANGED <<devices, snapshots>>
             \/ \E o \in Obj : Filed(d, o)
  BY <1>3, Zenon DEF Attached, AttachedBy
<1>4. ASSUME NEW s \in storing, Filed(s.obj.dev, s.obj)
      PROVE  \E d \in Device, o \in Obj : Filed(d, o)
  <2>1. s.obj \in Obj /\ s.obj.dev \in Device
    BY DEF TypeOK, Obj
  <2> QED BY <1>4, <2>1
<1> QED BY <1>1, <1>2, <1>3, <1>4, CacheStep

\* The address of a cached object has its device's snapshot.
SnapshotKept ==
  "reuse" \notin mishap => \A d \in LocalIds : snapshots[devices[d].host] = d

\* What a pass has read so far is in the cache.
FoundCached ==
  \A p \in Pass :
    /\ scan[p].found # {} =>
         scan[p].phase \in {"read", "probe", "release", "sweep"}
    /\ "overlap" \notin mishap => scan[p].found \subseteq LocalIds

\* A known device has its snapshot, in memory and in the file, under an address
\* of the host store.
KnownFiled ==
  mishap \cap {"overlap", "reuse"} = {} =>
    \A d \in known : \E h \in hosts : snapshots[h] = d /\ saved[h] = d

KnownInv == SnapshotKept /\ FoundCached /\ KnownFiled

LEMMA KnownInit == Init => KnownInv
<1> SUFFICES ASSUME Init PROVE KnownInv
  OBVIOUS
<1>1. SnapshotKept /\ KnownFiled
  BY DEF Init, SnapshotKept, KnownFiled, LocalIds
<1>2. FoundCached
  BY DEF Init, FoundCached, Startup, Blank, Pass
<1> QED BY <1>1, <1>2 DEF KnownInv

\* Filling a slot takes no snapshot from another device.
LEMMA FiledOwn ==
  ASSUME TypeOK, AddressInv', "reuse" \notin mishap',
         NEW d \in Device, NEW o \in Obj, Filed(d, o)
  PROVE  \A e \in Device : <<e, o.host>> \in held' => e = d
<1>1. d \in LocalIds' /\ devices'[d] = o
  BY FiledStays
<1>2. <<d, o.host>> \in held' /\ o.host \in Host
  BY <1>1 DEF AddressInv, AddressesHeld, CacheHeld, Obj
<1> QED BY <1>2 DEF AddressInv, OneOwner

LEMMA SnapshotNext ==
  ASSUME TypeOK, TypeOK', AddressInv', SnapshotKept, [Next]_vars
  PROVE  SnapshotKept'
<1> SUFFICES ASSUME "reuse" \notin mishap', NEW e \in LocalIds'
             PROVE  snapshots'[devices'[e].host] = e
  BY DEF SnapshotKept
<1>0. "reuse" \notin mishap
  BY MishapGrows
<1>1. CASE UNCHANGED <<devices, snapshots>>
  BY <1>0, <1>1 DEF SnapshotKept, LocalIds
<1>2. ASSUME NEW d \in Device, NEW o \in Obj, Filed(d, o)
      PROVE  snapshots'[devices'[e].host] = e
  <2> DEFINE h == devices'[e].host
  <2>1. /\ LocalIds' = LocalIds \cup {d} /\ devices'[d] = o
        /\ \A c \in Device \ {d} : devices'[c] = devices[c]
        /\ snapshots'[o.host] = d
        /\ \A g \in Host \ {o.host} : snapshots'[g] = snapshots[g]
    BY <1>2, FiledStays
  <2>2. e \in Device /\ h \in Host
    BY DEF TypeOK, LocalIds, Obj
  <2>3. <<e, h>> \in held'
    BY DEF AddressInv, AddressesHeld, CacheHeld
  <2>4. CASE e = d
    BY <2>1, <2>4
  <2>5. CASE e # d
    <3>1. h # o.host
      BY <1>2, <2>2, <2>3, <2>5, FiledOwn
    <3>2. e \in LocalIds /\ h = devices[e].host
      BY <2>1, <2>2, <2>5
    <3>3. snapshots[h] = e
      BY <1>0, <3>2 DEF SnapshotKept
    <3> QED BY <2>1, <2>2, <3>1, <3>3
  <2> QED BY <2>4, <2>5
<1> QED BY <1>1, <1>2, SlotStep

LEMMA KnownNext ==
  ASSUME TypeOK, AddressInv, AddressInv', KnownInv, [Next]_vars
  PROVE  KnownFiled'
<1> SUFFICES ASSUME mishap' \cap {"overlap", "reuse"} = {}, NEW e \in known'
             PROVE  \E h \in hosts' : snapshots'[h] = e /\ saved'[h] = e
  BY DEF KnownFiled
<1> USE DEF KnownInv
<1>0. mishap \cap {"overlap", "reuse"} = {}
  BY MishapGrows
<1>1. CASE UNCHANGED fileVars
  <2>1. hosts' = hosts /\ saved' = saved /\ known' = known
    BY <1>1 DEF fileVars
  <2>2. PICK h \in hosts : snapshots[h] = e /\ saved[h] = e
    BY <1>0, <2>1 DEF KnownFiled
  <2>3. h \in Host /\ e \in Device
    BY <2>1 DEF TypeOK
  <2>4. snapshots'[h] = e
    <3>1. ASSUME NEW d \in Device, NEW o \in Obj, Filed(d, o)
          PROVE  snapshots'[h] = e
      <4>1. <<e, h>> \in held'
        BY <2>1, <2>2, <2>3 DEF AddressInv, AddressesHeld
      <4>2. h = o.host => e = d
        BY <2>3, <3>1, <4>1, FiledOwn
      <4> QED BY <2>2, <2>3, <3>1, <4>2, FiledStays
    <3> QED BY <2>2, <3>1, SlotStep
  <2> QED BY <2>1, <2>2, <2>4
<1>2. ASSUME NEW p \in Pass, EndScan(p) \/ EndSweep(p)
      PROVE  \E h \in hosts' : snapshots'[h] = e /\ saved'[h] = e
  <2>1. /\ Persist(p)
        /\ UNCHANGED <<devices, snapshots, mishap>>
    BY <1>2 DEF EndScan, EndSweep, cacheVars
  <2>2. CASE e \in known
    <3>1. PICK h \in hosts : snapshots[h] = e /\ saved[h] = e
      BY <1>0, <2>2 DEF KnownFiled
    <3> QED BY <2>1, <3>1 DEF Persist
  <2>3. CASE e \in scan[p].found
    <3>1. e \in LocalIds
      BY <1>0, <2>3 DEF FoundCached
    <3>2. snapshots[devices[e].host] = e /\ devices[e].host \in CachedHosts
      BY <1>0, <3>1 DEF SnapshotKept, CachedHosts, Cached, LocalIds
    <3> QED BY <2>1, <3>2 DEF Persist
  <2> QED BY <2>1, <2>2, <2>3 DEF Persist
<1> QED BY <1>1, <1>2, FileStep

\* An attachment caches the device it finds.
LEMMA AttachCaches ==
  ASSUME TypeOK, OneHolder, NEW p \in Pass, NEW h \in Host, Attach(p, h, TRUE)
  PROVE  At(h) \subseteq LocalIds' /\ LocalIds \subseteq LocalIds'
<1>1. PICK d \in At(h) : Attached(d, h)
  BY AttachFiles
<1>2. At(h) = {d} /\ d \in Device
  BY <1>1 DEF At, OneHolder
<1>3. PICK q \in Pass : AttachedBy(q, d, h)
  BY <1>1 DEF Attached
<1>4. CASE Filed(d, NewObj(q, d, h))
  <2>1. NewObj(q, d, h) \in Obj
    BY <1>3, Zenon DEF AttachedBy
  <2> QED BY <1>2, <1>4, <2>1, FiledStays
<1>5. CASE devices[d] # Empty /\ UNCHANGED devices
  BY <1>2, <1>5 DEF LocalIds
<1> QED BY <1>3, <1>4, <1>5, Zenon DEF AttachedBy

\* How far the passes are changes in few ways: only an attachment adds to what
\* a pass found, and no pass leaves its reading with it.
LEMMA FoundNext ==
  ASSUME TypeOK, AddressInv, FoundCached, [Next]_vars
  PROVE  FoundCached'
<1>0. /\ scan \in [Pass -> Progress] /\ OneHolder
      /\ "startup" \in Pass /\ "manual" \in Pass /\ "subnet" \in Pass
      /\ Blank.found = {}
  BY TypeParts DEF ScanType, AddressInv, Pass, Blank
<1> DEFINE Going(q) ==
             scan'[q].found # {} =>
               scan'[q].phase \in {"read", "probe", "release", "sweep"}
           Sure(q) ==
             "overlap" \notin mishap' => scan'[q].found \subseteq LocalIds'
<1>1. ASSUME NEW p \in Pass, NEW H \in SUBSET Host, Found(p, H), NEW q \in Pass
      PROVE  Going(q) /\ Sure(q)
  <2>1. /\ scan[p].phase = "scan"
        /\ scan' = [scan EXCEPT ![p] = [scan[p] EXCEPT !.phase = "read",
                                          !.todo = H, !.prev = Cached]]
    BY <1>1 DEF Found
  <2>2. scan[p].found = {}
    BY <2>1 DEF FoundCached
  <2>3. CASE q = p
    BY <1>0, <2>1, <2>2, <2>3 DEF Progress
  <2>4. CASE q # p
    <3>1. scan'[q] = scan[q]
      BY <1>0, <2>1, <2>4
    <3>2. Going(q)
      BY <3>1 DEF FoundCached
    <3>3. ASSUME "overlap" \notin mishap' PROVE scan[q].found = {}
      <4>1. Running = {p}
        BY <1>1, <3>3 DEF Found
      <4>2. q \notin Running
        BY <2>4, <4>1
      <4> QED BY <4>2 DEF Running, FoundCached
    <3> QED BY <3>1, <3>2, <3>3
  <2> QED BY <2>3, <2>4
<1>2. ASSUME NEW p \in Pass, NEW h \in Host, NEW ok \in BOOLEAN,
             Attach(p, h, ok), NEW q \in Pass
      PROVE  Going(q) /\ Sure(q)
  <2>1. /\ scan'[q].phase = scan[q].phase
        /\ scan'[q].found = IF q = p /\ ok THEN scan[q].found \cup At(h)
                                           ELSE scan[q].found
        /\ scan[p].phase \in {"read", "probe", "sweep"}
    BY <1>0, <1>2 DEF Attach, Progress
  <2>2. Going(q)
    BY <2>1 DEF FoundCached
  <2>3. "overlap" \notin mishap' => scan[q].found \subseteq LocalIds
    BY MishapGrows DEF FoundCached
  <2>4. CASE ok
    <3>1. At(h) \subseteq LocalIds' /\ LocalIds \subseteq LocalIds'
      BY <1>0, <1>2, <2>4, AttachCaches
    <3> QED BY <2>1, <2>2, <2>3, <3>1
  <2>5. CASE ~ok
    <3>1. UNCHANGED devices
      BY <1>2, <2>5 DEF Attach, cacheVars
    <3> QED BY <2>1, <2>2, <2>3, <2>5, <3>1 DEF LocalIds
  <2> QED BY <2>4, <2>5
<1>3. ASSUME UNCHANGED scan, LocalIds \subseteq LocalIds', NEW q \in Pass
      PROVE  Going(q) /\ Sure(q)
  BY <1>3, MishapGrows DEF FoundCached
<1>4. ASSUME NEW s \in storing, EndStore(s)
      PROVE  UNCHANGED scan /\ LocalIds \subseteq LocalIds'
  <2>1. s.obj \in Obj /\ s.obj.dev \in Device /\ Filed(s.obj.dev, s.obj)
    BY <1>4 DEF TypeOK, Obj, EndStore, Filed
  <2>2. LocalIds \subseteq LocalIds'
    BY <2>1, FiledStays
  <2> QED BY <1>4, <2>2 DEF EndStore
<1>5. ASSUME UNCHANGED devices, NEW q \in Pass, NEW p \in Pass,
             NEW r \in Progress, scan' = [scan EXCEPT ![p] = r],
             \/ r.found = {}
             \/ /\ r.found = scan[p].found
                /\ r.phase \in {"read", "probe", "release"}
      PROVE  Going(q) /\ Sure(q)
  <2>1. LocalIds' = LocalIds
    BY <1>5 DEF LocalIds
  <2>2. scan'[q] = IF q = p THEN r ELSE scan[q]
    BY <1>0, <1>5
  <2> QED BY <1>5, <2>1, <2>2, MishapGrows DEF FoundCached
<1>6. ASSUME NEW p \in Pass, NEW q \in Pass,
             \/ ScanFails(p) \/ BeginProbes(p) \/ ReleasePrevious(p)
             \/ EndScan(p) \/ EndSweep(p) \/ AttachCloud(p)
      PROVE  Going(q) /\ Sure(q)
  <2>1. UNCHANGED devices
    BY <1>6 DEF ScanFails, BeginProbes, ReleasePrevious, EndScan, EndSweep,
                AttachCloud, cacheVars
  <2>2. PICK r \in Progress : /\ scan' = [scan EXCEPT ![p] = r]
                              /\ \/ r.found = {}
                                 \/ /\ r.found = scan[p].found
                                    /\ r.phase \in {"read", "probe", "release"}
    <3>1. LocalIds \subseteq Device /\ ToProbe \subseteq Host
      BY DEF LocalIds, TypeOK, ToProbe
    <3>2. CASE ScanFails(p)
      <4> DEFINE r == [scan[p] EXCEPT !.phase = "done"]
      <4>1. r \in Progress /\ r.found = scan[p].found
        BY <1>0 DEF Progress
      <4>2. scan[p].found = {}
        BY <3>2 DEF ScanFails, FoundCached
      <4>3. scan' = [scan EXCEPT ![p] = r]
        BY <3>2 DEF ScanFails
      <4> QED BY <4>1, <4>2, <4>3
    <3>3. CASE BeginProbes(p)
      <4> DEFINE r == [scan[p] EXCEPT !.phase = "probe", !.todo = ToProbe]
      <4>1. r \in Progress /\ r.found = scan[p].found /\ r.phase = "probe"
        BY <1>0, <3>1 DEF Progress
      <4>2. scan' = [scan EXCEPT ![p] = r]
        BY <3>3 DEF BeginProbes
      <4> QED BY <4>1, <4>2
    <3>r. CASE ReleasePrevious(p)
      <4> DEFINE r == [scan[p] EXCEPT !.phase = "release", !.prev = {}]
      <4>1. r \in Progress /\ r.found = scan[p].found /\ r.phase = "release"
        BY <1>0 DEF Progress
      <4>2. scan' = [scan EXCEPT ![p] = r]
        BY <3>r DEF ReleasePrevious
      <4> QED BY <4>1, <4>2
    <3>4. CASE EndScan(p) \/ EndSweep(p) \/ AttachCloud(p)
      <4>1. /\ [Blank EXCEPT !.phase = "sweep", !.todo = Host] \in Progress
            /\ [Blank EXCEPT !.phase = "sweep", !.todo = Host].found = {}
        BY DEF Blank, Progress
      <4>2. /\ [Blank EXCEPT !.phase = "cloud", !.skip = LocalIds] \in Progress
            /\ [Blank EXCEPT !.phase = "cloud", !.skip = LocalIds].found = {}
        BY <3>1 DEF Blank, Progress
      <4>3. /\ [Blank EXCEPT !.phase = "done"] \in Progress
            /\ [Blank EXCEPT !.phase = "done"].found = {}
        BY DEF Blank, Progress
      <4> QED BY <3>4, <4>1, <4>2, <4>3 DEF EndScan, EndSweep, AttachCloud
    <3> QED BY <1>6, <3>2, <3>3, <3>r, <3>4
  <2> QED BY <1>5, <2>1, <2>2
<1>7. ASSUME Rediscover \/ DiscoverSubnet, NEW q \in Pass
      PROVE  Going(q) /\ Sure(q)
  <2>1. UNCHANGED devices
    BY <1>7 DEF Rediscover, DiscoverSubnet, cacheVars
  <2>2. LocalIds' = LocalIds
    BY <2>1 DEF LocalIds
  <2>3. /\ scan'[q].found = scan[q].found
        /\ scan'[q] = scan[q] \/ scan[q] = Blank
    BY <1>0, <1>7 DEF Rediscover, DiscoverSubnet, Progress
  <2> QED BY <1>0, <2>2, <2>3, MishapGrows DEF FoundCached
<1>8. ASSUME Restart, NEW q \in Pass PROVE Going(q) /\ Sure(q)
  BY <1>8 DEF Restart, Startup, Blank, Pass
<1>9. ASSUME NEW d \in Device, NEW h \in Host \cup {Off}, Move(d, h)
      PROVE  UNCHANGED scan /\ LocalIds \subseteq LocalIds'
  BY <1>9 DEF Move, cacheVars, LocalIds
<1>10. UNCHANGED vars => UNCHANGED scan /\ LocalIds \subseteq LocalIds'
  BY DEF vars, cacheVars, LocalIds
<1> HIDE DEF Going, Sure
<1>11. \A q \in Pass : Going(q) /\ Sure(q)
  BY <1>1, <1>2, <1>3, <1>4, <1>6, <1>7, <1>8, <1>9, <1>10 DEF Next, PassStep
<1> QED BY <1>11 DEF FoundCached, Going, Sure

\* A device some pass read and persisted is listed, live or grayed.
THEOREM KnownStaysListedHolds == Spec => []KnownStaysListed
<1>1. TypeOK /\ OpenInv /\ AddressInv /\ KnownInv => KnownStaysListed
  <2> SUFFICES ASSUME TypeOK, AddressInv, KnownInv, NEW d \in known,
                      mishap \cap {"overlap", "reuse"} = {}
               PROVE  d \in Shown
    BY DEF KnownStaysListed
  <2>1. PICK h \in hosts : snapshots[h] = d
    BY DEF KnownInv, KnownFiled
  <2>2. h \in Host /\ d \in Device /\ <<d, h>> \in held
    BY <2>1 DEF TypeOK, AddressInv, AddressesHeld, CacheHeld
  <2>3. CASE h \in CachedHosts
    <3>1. PICK e \in LocalIds : devices[e].host = h
      BY <2>3 DEF CachedHosts, Cached, LocalIds
    <3>2. <<e, h>> \in held /\ e \in Device
      BY <3>1 DEF AddressInv, AddressesHeld, CacheHeld, LocalIds
    <3>3. e = d
      BY <2>2, <3>2 DEF AddressInv, OneOwner
    <3> QED BY <3>1, <3>3 DEF Shown, Live
  <2>4. CASE h \notin CachedHosts
    BY <2>1, <2>4 DEF Shown, Gray
  <2> QED BY <2>3, <2>4
<1>2. KnownInv /\ TypeOK /\ TypeOK' /\ AddressInv /\ AddressInv' /\ [Next]_vars
        => KnownInv'
  BY SnapshotNext, KnownNext, FoundNext DEF KnownInv
<1> QED BY <1>1, <1>2, TypeInit, TypeNext, OpenInit, OpenNext, AddressesInit,
           AddressesNext, KnownInit, PTL DEF Spec

-----------------------------------------------------------------------------
(* A device that answers is attached *)

\* While nothing happens, a device has the address its object was made for.
InPlace ==
  calm => /\ \A d \in LocalIds : devices[d].host = where[d]
          /\ \A s \in storing : s.obj.host = where[s.obj.dev]

\* Some pass will come to device d: one that reads the answers to a broadcast,
\* and, for a known host, one that has yet to probe it.
Awaits(d) ==
  /\ d \in Segment =>
       \E p \in Pass : scan[p].phase = "read" /\ where[d] \in scan[p].todo
  /\ where[d] \in hosts =>
       \E p \in Pass : \/ scan[p].phase = "read"
                       \/ scan[p].phase = "probe" /\ where[d] \in scan[p].todo

\* While nothing happens, a device that answers is cached or awaited.
Awaited ==
  calm => \A d \in Device :
            where[d] # Off /\ devices[d] = Empty => Awaits(d)

\* Nothing happens, or a broadcast starts afresh.
LEMMA CalmStep ==
  ASSUME TypeOK, [Next]_vars, calm'
  PROVE  /\ UNCHANGED worldVars /\ ~Restart
         /\ \/ calm
            \/ /\ LocalIds' = {} /\ storing' = {}
               /\ \E p \in Pass, H \in SUBSET Host : Found(p, H)
<1>1. ASSUME NEW p \in Pass, NEW H \in SUBSET Host, Found(p, H)
      PROVE  LocalIds' = {} /\ storing' = {}
  BY <1>1 DEF Found, Event, LocalIds
<1>2. ASSUME NEW p \in Pass, NEW h \in Host, NEW ok \in BOOLEAN,
             Attach(p, h, ok)
      PROVE  calm
  BY <1>2, Zenon DEF Attach, Event, Quiet
<1>3. ASSUME NEW p \in Pass, ScanFails(p) \/ AttachCloud(p) PROVE calm
  BY <1>3, Zenon DEF ScanFails, AttachCloud, Event, Quiet
<1>4. ASSUME NEW p \in Pass, \/ BeginProbes(p) \/ ReleasePrevious(p)
                             \/ EndScan(p) \/ EndSweep(p)
      PROVE  calm
  BY <1>4 DEF BeginProbes, ReleasePrevious, EndScan, EndSweep
<1>5. ASSUME NEW s \in storing, EndStore(s) PROVE calm
  BY <1>5 DEF EndStore
<1>6. Rediscover \/ DiscoverSubnet => calm
  BY DEF Rediscover, DiscoverSubnet
<1>7. ~Restart /\ \A d \in Device, h \in Host \cup {Off} : ~Move(d, h)
  BY Zenon DEF Restart, Move, Event
<1>8. UNCHANGED vars => calm
  BY DEF vars
<1>9. UNCHANGED worldVars
  BY <1>7, WorldStep
<1> QED BY <1>1, <1>2, <1>3, <1>4, <1>5, <1>6, <1>7, <1>8, <1>9
        DEF Next, PassStep

LEMMA InPlaceNext ==
  ASSUME TypeOK, InPlace, [Next]_vars
  PROVE  InPlace'
<1> SUFFICES ASSUME calm' PROVE InPlace'
  BY DEF InPlace
<1>1. where' = where
  BY CalmStep DEF worldVars
<1>2. CASE LocalIds' = {} /\ storing' = {}
  BY <1>2 DEF InPlace
<1>3. CASE calm
  <2>0. /\ \A d \in LocalIds : devices[d].host = where[d]
        /\ \A s \in storing : s.obj.host = where[s.obj.dev]
    BY <1>3 DEF InPlace
  <2>1. CASE UNCHANGED <<devices, storing, snapshots>>
    BY <1>1, <2>0, <2>1 DEF InPlace, LocalIds
  <2>2. CASE /\ devices' = [d \in Device |-> Empty]
             /\ \/ snapshots' = saved /\ storing' = {}
                \/ UNCHANGED <<storing, snapshots>>
    BY <1>1, <2>0, <2>2 DEF InPlace, LocalIds
  <2>3. ASSUME NEW d \in Device, NEW o \in Obj, Filed(d, o),
               o.host = where[d], storing' \subseteq storing
        PROVE  InPlace'
    <3>1. /\ LocalIds' = LocalIds \cup {d} /\ devices'[d] = o
          /\ \A e \in Device \ {d} : devices'[e] = devices[e]
      BY <2>3, FiledStays
    <3>2. \A e \in LocalIds' : devices'[e].host = where[e]
      BY <2>0, <2>3, <3>1 DEF LocalIds
    <3> QED BY <1>1, <2>0, <2>3, <3>2 DEF InPlace
  <2>4. ASSUME NEW d \in Device, NEW h \in Host, Attached(d, h)
        PROVE  InPlace'
    <3>1. PICK p \in Pass : AttachedBy(p, d, h)
      BY <2>4 DEF Attached
    <3> DEFINE o == NewObj(p, d, h)
    <3>2. o \in Obj /\ o.dev = d /\ o.host = h /\ where[d] = h
      BY <3>1 DEF AttachedBy, NewObj
    <3>3. \/ Filed(d, o) /\ UNCHANGED storing
          \/ /\ UNCHANGED <<devices, snapshots>>
             /\ storing' = storing \cup {[obj |-> o, old |-> devices[d]]}
      BY <3>1 DEF AttachedBy
    <3> HIDE DEF o
    <3>4. CASE Filed(d, o) /\ UNCHANGED storing
      BY <2>3, <3>2, <3>4
    <3>5. CASE /\ UNCHANGED <<devices, snapshots>>
               /\ storing' = storing \cup {[obj |-> o, old |-> devices[d]]}
      BY <1>1, <2>0, <3>2, <3>5 DEF InPlace, LocalIds
    <3> QED BY <3>3, <3>4, <3>5
  <2>5. ASSUME NEW s \in storing, Filed(s.obj.dev, s.obj),
               storing' = storing \ {s}
        PROVE  InPlace'
    <3>1. s.obj \in Obj /\ s.obj.dev \in Device
      BY DEF TypeOK, Obj
    <3> QED BY <2>0, <2>3, <2>5, <3>1
  <2> QED BY <2>1, <2>2, <2>4, <2>5, CacheStep
<1> QED BY <1>2, <1>3, CalmStep

\* While nothing happens, a host of the cache is that of the device it is of.
LEMMA HostIsCached ==
  ASSUME TypeOK, OneHolder, InPlace, calm, NEW d \in Device,
         where[d] # Off, where[d] \in CachedHosts
  PROVE  devices[d] # Empty
<1>1. PICK e \in LocalIds : devices[e].host = where[d]
  BY DEF CachedHosts, Cached, LocalIds
<1>2. where[e] = where[d] /\ e \in Device
  BY <1>1 DEF InPlace, LocalIds
<1> QED BY <1>1, <1>2 DEF OneHolder, LocalIds

LEMMA AwaitedNext ==
  ASSUME TypeOK, AddressInv, InPlace, Awaited, [Next]_vars
  PROVE  Awaited'
<1> SUFFICES ASSUME calm', NEW d \in Device, where'[d] # Off,
                    devices'[d] = Empty
             PROVE  Awaits(d)'
  BY DEF Awaited
<1>0. /\ scan \in [Pass -> Progress] /\ OneHolder
      /\ "startup" \in Pass /\ "manual" \in Pass /\ "subnet" \in Pass
      /\ where' = where /\ where[d] # Off /\ where[d] \in Host
  BY TypeParts, CalmStep DEF ScanType, AddressInv, Pass, worldVars, TypeOK
<1>1. ASSUME NEW p \in Pass, NEW H \in SUBSET Host, Found(p, H)
      PROVE  Awaits(d)'
  <2>1. H = {where[e] : e \in Segment} \ {Off}
    BY <1>1, Zenon DEF Found, Event
  <2>2. scan'[p].phase = "read" /\ scan'[p].todo = H
    BY <1>0, <1>1 DEF Found, Progress
  <2> QED BY <1>0, <2>1, <2>2 DEF Awaits
<1> SUFFICES ASSUME \A p \in Pass, H \in SUBSET Host : ~Found(p, H)
             PROVE  Awaits(d)'
  BY <1>1
<1>2. calm /\ ~Restart
  BY CalmStep
<1>3. devices[d] = Empty
  <2>2. ASSUME NEW e \in Device, NEW o \in Obj, Filed(e, o)
        PROVE  devices[d] = Empty
    BY <2>2, FiledStays DEF LocalIds
  <2>3. ASSUME NEW p \in Pass, NEW h \in Host, NEW ok \in BOOLEAN,
               Attach(p, h, ok)
        PROVE  devices[d] = Empty
    <3>1. CASE ok
      BY <1>0, <2>3, <3>1, AttachCaches DEF LocalIds
    <3>2. CASE ~ok
      BY <2>3, <3>2 DEF Attach, cacheVars
    <3> QED BY <3>1, <3>2
  <2>4. ASSUME NEW s \in storing, EndStore(s) PROVE devices[d] = Empty
    <3>1. s.obj \in Obj /\ s.obj.dev \in Device
      BY DEF TypeOK, Obj
    <3> QED BY <2>2, <2>4, <3>1 DEF EndStore, Filed
  <2> QED
    BY <1>2, <2>3, <2>4 DEF Next, PassStep, ScanFails, BeginProbes,
       ReleasePrevious, EndScan, EndSweep, AttachCloud, Move, Rediscover,
       DiscoverSubnet, vars, cacheVars
<1>4. Awaits(d)
  BY <1>0, <1>2, <1>3 DEF Awaited
<1>5. ASSUME NEW p \in Pass, NEW h \in Host, NEW ok \in BOOLEAN,
             Attach(p, h, ok)
      PROVE  Awaits(d)'
  <2>1. where[d] # h
    <3>1. SUFFICES ASSUME d \in At(h) PROVE FALSE
      BY DEF At
    <3>2. ok = TRUE
      BY <1>5, <3>1, Zenon DEF Attach, Event
    <3>3. d \in LocalIds'
      BY <1>0, <1>5, <3>1, <3>2, AttachCaches
    <3> QED BY <3>3 DEF LocalIds
  <2>2. /\ hosts' = hosts
        /\ \A q \in Pass :
             /\ scan'[q].phase = scan[q].phase
             /\ scan'[q].todo = IF q = p THEN scan[q].todo \ {h}
                                         ELSE scan[q].todo
    BY <1>0, <1>5 DEF Attach, Progress, fileVars
  <2> QED BY <1>0, <1>4, <2>1, <2>2 DEF Awaits
<1>6. ASSUME NEW p \in Pass, \A q \in Pass \ {p} : scan'[q] = scan[q],
             where[d] \in hosts' => where[d] \in hosts,
             \/ scan[p].phase \notin {"read", "probe"}
             \/ scan[p].phase = "probe" /\ scan[p].todo = {}
      PROVE  Awaits(d)'
  BY <1>0, <1>4, <1>6 DEF Awaits
<1>7. ASSUME NEW p \in Pass, BeginProbes(p) PROVE Awaits(d)'
  <2>1. /\ scan[p].phase = "read" /\ scan[p].todo = {} /\ hosts' = hosts
        /\ scan'[p].phase = "probe" /\ scan'[p].todo = hosts \ CachedHosts
        /\ \A q \in Pass \ {p} : scan'[q] = scan[q]
    BY <1>0, <1>7 DEF BeginProbes, Progress, fileVars, ToProbe
  <2>2. where[d] \notin CachedHosts
    BY <1>0, <1>2, <1>3, HostIsCached
  <2> QED BY <1>0, <1>4, <2>1, <2>2 DEF Awaits
<1>8. ASSUME NEW p \in Pass, EndScan(p) \/ EndSweep(p) PROVE Awaits(d)'
  <2>1. where[d] \notin CachedHosts
    BY <1>0, <1>2, <1>3, HostIsCached
  <2>2. \A q \in Pass \ {p} : scan'[q] = scan[q]
    BY <1>0, <1>8 DEF EndScan, EndSweep
  <2>3. hosts' = hosts \cup CachedHosts
    BY <1>8 DEF EndScan, EndSweep, Persist
  <2>4. \/ scan[p].phase \notin {"read", "probe"}
        \/ scan[p].phase = "probe" /\ scan[p].todo = {}
    BY <1>8 DEF EndScan, EndSweep
  <2> QED BY <1>6, <2>1, <2>2, <2>3, <2>4
<1>r. ASSUME NEW p \in Pass, ReleasePrevious(p) PROVE Awaits(d)'
  <2>1. /\ \A q \in Pass \ {p} : scan'[q] = scan[q]
        /\ hosts' = hosts /\ scan[p].phase = "probe" /\ scan[p].todo = {}
    BY <1>0, <1>r DEF ReleasePrevious, fileVars
  <2> QED BY <1>6, <2>1
<1>9. ASSUME NEW p \in Pass, ScanFails(p) \/ AttachCloud(p) PROVE Awaits(d)'
  <2>1. /\ \A q \in Pass \ {p} : scan'[q] = scan[q]
        /\ hosts' = hosts /\ scan[p].phase \notin {"read", "probe"}
    BY <1>0, <1>9 DEF ScanFails, AttachCloud, fileVars
  <2> QED BY <1>6, <2>1
<1>10. CASE Rediscover
  <2>1. /\ \A q \in Pass \ {"manual"} : scan'[q] = scan[q] /\ hosts' = hosts
        /\ scan["manual"].phase \notin {"read", "probe"}
    BY <1>0, <1>10 DEF Rediscover, fileVars, Blank
  <2> QED BY <1>0, <1>6, <2>1
<1>11. CASE DiscoverSubnet
  <2>1. /\ \A q \in Pass \ {"subnet"} : scan'[q] = scan[q]
        /\ hosts' = hosts /\ scan["subnet"].phase \notin {"read", "probe"}
    BY <1>0, <1>11 DEF DiscoverSubnet, fileVars, Blank
  <2> QED BY <1>0, <1>6, <2>1
<1>12. ASSUME UNCHANGED <<scan, hosts>> PROVE Awaits(d)'
  BY <1>0, <1>4, <1>12 DEF Awaits
<1>13. ASSUME NEW s \in storing, EndStore(s) PROVE UNCHANGED <<scan, hosts>>
  BY <1>13 DEF EndStore, fileVars
<1>14. ASSUME NEW e \in Device, NEW h \in Host \cup {Off}, Move(e, h)
       PROVE  UNCHANGED <<scan, hosts>>
  BY <1>14 DEF Move, fileVars
<1>15. UNCHANGED vars => UNCHANGED <<scan, hosts>>
  BY DEF vars, fileVars
<1> QED BY <1>2, <1>5, <1>7, <1>r, <1>8, <1>9, <1>10, <1>11, <1>12, <1>13,
           <1>14, <1>15 DEF Next, PassStep

\* Once no broadcast pass is under way and nothing happened since one of them
\* emptied the cache, every device that answers is attached.
THEOREM ReattachedHolds == Spec => []Reattached
<1>1. Init => InPlace /\ Awaited
  BY DEF Init, InPlace, Awaited
<1>2. Awaited => Reattached
  <2> SUFFICES ASSUME Awaited, calm,
                      \A p \in Pass : scan[p].phase
                                        \notin {"scan", "read", "probe"},
                      NEW d \in Device, where[d] # Off,
                      d \in Segment \/ where[d] \in hosts, devices[d] = Empty
               PROVE  FALSE
    BY DEF Reattached
  <2> QED BY DEF Awaited, Awaits
<1> QED BY <1>1, <1>2, TypeInit, TypeNext, AddressesInit, AddressesNext,
           InPlaceNext, AwaitedNext, PTL DEF Spec

=============================================================================
