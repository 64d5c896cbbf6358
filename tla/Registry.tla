------------------------------- MODULE Registry -------------------------------
(***************************************************************************)
(* The device registry (api/kasa_service.py): the passes that discover     *)
(* devices and rebuild its cache, the sessions of the objects they create, *)
(* the known hosts and snapshots that keep an absent device visible        *)
(* (api/device_store.py), and the cloud fallback (attach_cloud).           *)
(*                                                                         *)
(* Three passes may overlap: the startup pass, POST /api/discover and POST *)
(* /api/discover/subnet (POST /api/discover with a target is the latter    *)
(* for one host).  Bound: each of them is run once in a process.  A step   *)
(* is what runs between two awaits.                                        *)
(***************************************************************************)
EXTENDS Integers, FiniteSets

CONSTANTS
  Device,      \* the hardware, each with its MAC (stable_device_id)
  Host,        \* LAN addresses
  Segment,     \* devices a broadcast reaches; the others need a unicast probe
  Cloud,       \* devices of the TP-Link account with a cloud model
  ScanSubnet,  \* whether a subnet is configured for the startup pass
  MaxEvents    \* bound: moves, lost reads, failures and restarts, together

Off  == "off"
None == "none"
Pass == {"startup", "manual", "subnet"}
Obj  == [dev : Device, host : Host, pass : Pass,
         stage : {"read", "probe", "sweep"}]
Empty == [dev |-> None, host |-> None]   \* no object

ASSUME RegistryConstants ==
  /\ Segment \subseteq Device /\ Cloud \subseteq Device
  /\ Off \notin Host /\ None \notin Device \cup Host
  /\ ScanSubnet \in BOOLEAN /\ MaxEvents \in Nat

VARIABLES
  where,      \* where[d]: the host d answers at, or Off
  devices,    \* _devices: the cached object of each id, or Empty
  cloud,      \* ids in _cloud_devices
  hosts,      \* the host store
  snapshots,  \* _snapshots: the id in the record of a host, or None
  saved,      \* the snapshot store's file
  open,       \* objects whose session is open
  scan,       \* scan[p]: how far pass p is
  storing,    \* calls of _store_device that await a disconnect
  events,     \* how many of the bounded events there were
  \* history, read by the properties only
  held,       \* who had which host so far
  known,      \* devices that a pass read, stored and persisted
  mishap,     \* what happened so far: overlapping passes, a reused host,
              \* two calls of _store_device at once for one device
  calm        \* no event since the cache was last emptied, with no
              \* _store_device under way

worldVars == <<where, held>>
cacheVars == <<devices, snapshots, open, storing>>
fileVars  == <<hosts, saved, known>>
vars == <<worldVars, cacheVars, fileVars, cloud, scan, events, mishap, calm>>

-----------------------------------------------------------------------------
Event == events < MaxEvents /\ events' = events + 1 /\ calm' = FALSE
Quiet == UNCHANGED <<events, calm>>

Cached   == {devices[d] : d \in Device} \ {Empty}
LocalIds == {d \in Device : devices[d] # Empty}

\* _hosts.
CachedHosts == {o.host : o \in Cached}

At(h) == {d \in Device : where[d] = h}

\* all(), and the ids it lists.
Live == LocalIds \cup cloud

\* unreachable_devices, as the hosts whose snapshots it lists.
Gray == {h \in hosts \ CachedHosts : snapshots[h] \notin Live}

Shown == Live \cup {snapshots[h] : h \in Gray}

Blank    == [phase |-> "idle", todo |-> {}, prev |-> {}, skip |-> {},
             found |-> {}]
Running  == {p \in Pass : scan[p].phase \notin {"idle", "done"}}
Startup  == [[p \in Pass |-> Blank] EXCEPT !["startup"].phase = "scan"]

Init ==
  /\ where \in [Device -> Host \cup {Off}]
  /\ \A d, e \in Device : where[d] = where[e] => d = e \/ where[d] = Off
  /\ devices = [d \in Device |-> Empty]
  /\ cloud = {}
  /\ hosts = {}
  /\ snapshots = [h \in Host |-> None]
  /\ saved = snapshots
  /\ open = {} /\ storing = {}
  /\ scan = Startup
  /\ events = 0
  /\ held = {<<d, where[d]>> : d \in {e \in Device : where[e] # Off}}
  /\ known = {} /\ mishap = {} /\ calm = FALSE

-----------------------------------------------------------------------------
(* Requests *)

Rediscover ==
  /\ scan["manual"] = Blank
  /\ scan' = [scan EXCEPT !["manual"].phase = "scan"]
  /\ UNCHANGED <<worldVars, cacheVars, fileVars, cloud, events, mishap, calm>>

DiscoverSubnet ==
  /\ scan["subnet"] = Blank
  /\ scan' = [scan EXCEPT !["subnet"].phase = "sweep", !["subnet"].todo = Host]
  /\ UNCHANGED <<worldVars, cacheVars, fileVars, cloud, events, mishap, calm>>

-----------------------------------------------------------------------------
(* discover_all *)

\* The broadcast returns: the cache is replaced by an empty one, to be filled
\* again one awaited read at a time.
Found(p, H) ==
  /\ scan[p].phase = "scan"
  /\ LET answers == {where[d] : d \in Segment} \ {Off} IN
       \/ H = answers /\ calm' = (storing = {}) /\ UNCHANGED events
       \/ H \subseteq answers /\ H # answers /\ Event
  /\ scan' = [scan EXCEPT ![p].phase = "read", ![p].todo = H,
                           ![p].prev = Cached]
  /\ devices' = [d \in Device |-> Empty]
  /\ mishap' = IF Running = {p} THEN mishap ELSE mishap \cup {"overlap"}
  /\ UNCHANGED <<worldVars, snapshots, open, storing, fileVars, cloud>>

\* The broadcast raises: the request fails, the startup sweep ends.
ScanFails(p) ==
  /\ scan[p].phase = "scan"
  /\ Event
  /\ scan' = [scan EXCEPT ![p].phase = "done"]
  /\ UNCHANGED <<worldVars, cacheVars, fileVars, cloud, mishap>>

\* A pass that reads one device after another waits for _store_device.
Free(p) == scan[p].phase = "sweep" \/ \A s \in storing : s.obj.pass # p

\* A host is probed and, when a device answers and can be read, _store_device
\* entered: it stores the object at once, or first disconnects the one it
\* supersedes.
Attach(p, h, ok) ==
  /\ scan[p].phase \in {"read", "probe", "sweep"}
  /\ h \in scan[p].todo
  /\ Free(p)
  /\ scan' = [scan EXCEPT ![p].todo = @ \ {h},
                           ![p].found = IF ok THEN @ \cup At(h) ELSE @]
  /\ \/ ok = (At(h) # {}) /\ Quiet
     \/ At(h) # {} /\ ~ok /\ Event
  /\ IF ~ok THEN UNCHANGED <<cacheVars, mishap>>
     ELSE \E d \in At(h) :
       LET o == [dev |-> d, host |-> h, pass |-> p, stage |-> scan[p].phase]
       IN
         /\ open' = open \cup {o}
         /\ mishap' = IF \E s \in storing : s.obj.dev = d
                        THEN mishap \cup {"race"} ELSE mishap
         /\ IF devices[d] = Empty
              THEN /\ devices' = [devices EXCEPT ![d] = o]
                   /\ snapshots' = [snapshots EXCEPT ![h] = d]
                   /\ UNCHANGED storing
              ELSE /\ storing' = storing \cup {[obj |-> o, old |-> devices[d]]}
                   /\ UNCHANGED <<devices, snapshots>>
  /\ UNCHANGED <<worldVars, fileVars, cloud>>

\* Mutant: what is released is what the slot holds afterwards.
EndStoreClosesSlot(s) ==
  /\ devices' = [devices EXCEPT ![s.obj.dev] = s.obj]
  /\ snapshots' = [snapshots EXCEPT ![s.obj.host] = s.obj.dev]
  /\ open' = open \ {devices'[s.obj.dev]}
  /\ storing' = storing \ {s}
  /\ UNCHANGED <<worldVars, fileVars, cloud, scan, events, mishap, calm>>

\* _store_device after the disconnect of the object found in the slot before.
EndStore(s) ==
  /\ devices' = [devices EXCEPT ![s.obj.dev] = s.obj]
  /\ snapshots' = [snapshots EXCEPT ![s.obj.host] = s.obj.dev]
  /\ open' = open \ {s.old}
  /\ storing' = storing \ {s}
  /\ UNCHANGED <<worldVars, fileVars, cloud, scan, events, mishap, calm>>

\* Mutant: a host with a snapshot is taken for attached.
ToProbeUnread == {h \in hosts : snapshots[h] = None}

\* Every known host without a cached device is probed.
ToProbe == hosts \ CachedHosts

BeginProbes(p) ==
  /\ scan[p].phase = "read" /\ scan[p].todo = {}
  /\ Free(p)
  /\ scan' = [scan EXCEPT ![p].phase = "probe", ![p].todo = ToProbe]
  /\ UNCHANGED <<worldVars, cacheVars, fileVars, cloud, events, mishap, calm>>

\* Mutant: an absent host is dropped.
PersistCached(p) ==
  /\ hosts' = CachedHosts
  /\ saved' = snapshots
  /\ known' = known \cup scan[p].found

\* _persist, by pass p.
Persist(p) ==
  /\ hosts' = hosts \cup CachedHosts
  /\ saved' = snapshots
  /\ known' = known \cup scan[p].found

\* Mutant: nothing is released.
NotReleased(p) == {}

\* The objects of the previous cache that were not kept.
Released(p) == scan[p].prev \ Cached

\* Which objects were kept is settled once, the others are disconnected.
ReleasePrevious(p) ==
  /\ scan[p].phase = "probe" /\ scan[p].todo = {}
  /\ Free(p)
  /\ open' = open \ Released(p)
  /\ scan' = [scan EXCEPT ![p].phase = "release", ![p].prev = {}]
  /\ UNCHANGED <<worldVars, devices, snapshots, storing, fileVars, cloud,
                 events, mishap, calm>>

\* Then the hosts are persisted; the startup pass sweeps its subnet, if any,
\* and the cloud is attached.
EndScan(p) ==
  /\ scan[p].phase = "release"
  /\ Persist(p)
  /\ scan' = [scan EXCEPT ![p] =
       IF p = "startup" /\ ScanSubnet
         THEN [Blank EXCEPT !.phase = "sweep", !.todo = Host]
         ELSE [Blank EXCEPT !.phase = "cloud", !.skip = LocalIds]]
  /\ UNCHANGED <<worldVars, cacheVars, cloud, events, mishap, calm>>

\* discover_subnet ends.
EndSweep(p) ==
  /\ scan[p].phase = "sweep" /\ scan[p].todo = {}
  /\ \A s \in storing : s.obj.pass # p
  /\ Persist(p)
  /\ scan' = [scan EXCEPT ![p] =
       IF p = "startup" THEN [Blank EXCEPT !.phase = "cloud", !.skip = LocalIds]
                        ELSE [Blank EXCEPT !.phase = "done"]]
  /\ UNCHANGED <<worldVars, cacheVars, cloud, events, mishap, calm>>

\* Mutant: the model is not looked at.
WantedOfAnyModel(p) == Device \ scan[p].skip

\* The devices of the account that were not local when attach_cloud began.
Wanted(p) == Cloud \ scan[p].skip

\* attach_cloud: some devices may be offline in the cloud's view, or the cloud
\* does not answer, which leaves the attached ones.
AttachCloud(p) ==
  /\ scan[p].phase = "cloud"
  /\ \/ cloud' = Wanted(p) /\ Quiet
     \/ Event /\ cloud' \in SUBSET Wanted(p) \ {Wanted(p)}
     \/ Event /\ UNCHANGED cloud
  /\ scan' = [scan EXCEPT ![p] = [Blank EXCEPT !.phase = "done"]]
  /\ UNCHANGED <<worldVars, cacheVars, fileVars, mishap>>

-----------------------------------------------------------------------------
(* The network and the process *)

\* d leaves, returns, or gets another address (DHCP).
Move(d, h) ==
  /\ where[d] # h
  /\ h # Off => At(h) = {}
  /\ Event
  /\ where' = [where EXCEPT ![d] = h]
  /\ held' = IF h = Off THEN held ELSE held \cup {<<d, h>>}
  /\ mishap' = IF \E e \in Device \ {d} : <<e, h>> \in held
                 THEN mishap \cup {"reuse"} ELSE mishap
  /\ UNCHANGED <<cacheVars, fileVars, cloud, scan>>

\* Only the files survive.
Restart ==
  /\ Event
  /\ devices' = [d \in Device |-> Empty]
  /\ cloud' = {}
  /\ snapshots' = saved
  /\ open' = {} /\ storing' = {}
  /\ scan' = Startup
  /\ UNCHANGED <<worldVars, fileVars, mishap>>

-----------------------------------------------------------------------------
PassStep(p) ==
  \/ \E H \in SUBSET Host : Found(p, H)
  \/ \E h \in Host, ok \in BOOLEAN : Attach(p, h, ok)
  \/ \E s \in storing : s.obj.pass = p /\ EndStore(s)
  \/ ScanFails(p) \/ BeginProbes(p) \/ ReleasePrevious(p) \/ EndScan(p)
  \/ EndSweep(p) \/ AttachCloud(p)

Next ==
  \/ \E p \in Pass : PassStep(p)
  \/ \E d \in Device, h \in Host \cup {Off} : Move(d, h)
  \/ Rediscover \/ DiscoverSubnet \/ Restart

Spec == Init /\ [][Next]_vars

-----------------------------------------------------------------------------
(* Properties *)

TypeOK ==
  /\ where \in [Device -> Host \cup {Off}]
  /\ devices \in [Device -> Obj \cup {Empty}]
  /\ cloud \subseteq Cloud /\ hosts \subseteq Host
  /\ snapshots \in [Host -> Device \cup {None}]
  /\ saved \in [Host -> Device \cup {None}]
  /\ open \subseteq Obj
  /\ scan \in [Pass -> [phase : {"idle", "scan", "read", "probe",
                                 "release", "sweep", "cloud", "done"},
                        todo : SUBSET Host, prev : SUBSET Obj,
                        skip : SUBSET Device, found : SUBSET Device]]
  /\ storing \subseteq [obj : Obj, old : Obj]
  /\ events \in 0 .. MaxEvents
  /\ held \subseteq Device \X Host
  /\ known \subseteq Device
  /\ mishap \subseteq {"overlap", "reuse", "race"} /\ calm \in BOOLEAN

\* The object in a slot is filed under its own device and has not been
\* disconnected, by whichever pass: "never closing a device we kept".
CachedIsOpen ==
  \A d \in LocalIds : devices[d].dev = d /\ devices[d] \in open

\* No session is lost: an open object is cached, or in the hands of a pass that
\* will store or release it.  This holds for passes that overlap, as long as
\* two of them do not store the same device at the same time.
SessionsHeld ==
  "race" \notin mishap =>
    open \subseteq Cached \cup (UNION {scan[p].prev : p \in Pass})
                          \cup (UNION {{s.obj, s.old} : s \in storing})

\* A device a pass found and persisted stays listed, live or grayed, through
\* outages, new addresses, rediscoveries and restarts ("instead of vanishing
\* from rooms/favorites"), while passes do not overlap and no address is given
\* to another device.
KnownStaysListed ==
  mishap \cap {"overlap", "reuse"} = {} => known \subseteq Shown

\* unreachable_devices' docstring, without these conditions.
NeverVanishes == known \subseteq Shown

\* attach_cloud: "so it isn't listed twice"; unreachable_devices: "so it isn't
\* forked into a phantom twin".
ListedOnce ==
  /\ LocalIds \cap cloud = {}
  /\ \A g, h \in Gray :
       snapshots[g] = snapshots[h] /\ snapshots[g] # None => g = h

\* Once no broadcast pass is under way, every device that answers, on the
\* broadcast's segment or at a known host, is cached, unless something happened
\* since the cache was last emptied.  Overlapping passes make no exception.
Reattached ==
  calm /\ (\A p \in Pass : scan[p].phase \notin {"scan", "read", "probe"}) =>
    \A d \in Device :
      where[d] # Off /\ (d \in Segment \/ where[d] \in hosts) =>
        devices[d] # Empty

=============================================================================
