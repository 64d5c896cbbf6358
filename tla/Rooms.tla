-------------------------------- MODULE Rooms --------------------------------
(***************************************************************************)
(* Rooms and favorites: the document of GroupStore (api/group_store.py on  *)
(* api/json_store.py), its REST handlers, the optimistic GroupsStore of    *)
(* the open tabs (groups.svelte.ts), the re-keying of entries filed under  *)
(* a LAN address (DeviceRegistry._migrate_identity) and the backup         *)
(* document (routers/backup.py), as far as it holds rooms and favorites.   *)
(*                                                                         *)
(* A handler reads, changes and writes the file without an await, so it is *)
(* one step.  What interleaves is everything outside: several edits of a   *)
(* tab, several tabs, requests that overtake each other, requests and      *)
(* answers that are lost, a file that cannot be read or written, discovery *)
(* of devices that have moved to another address, a restored backup and a  *)
(* restart.  Names and the order of the lists are left out.                *)
(***************************************************************************)
EXTENDS Naturals, FiniteSets

CONSTANTS
  Device,     \* stable device ids
  RoomId,     \* room ids, never handed out twice
  Tab,        \* open browser tabs
  NoRoom,     \* null as a room of a device
  NoTab,      \* stands for a writer that is no tab
  Elsewhere,  \* stands for the addresses nothing was filed under
  InitFile,   \* the groups file at the start
  InitHosts,  \* the ways the devices may be spread over the addresses then
  Handled,    \* bound: the devices placed, starred, found and moved
  MaxOps,     \* bound: user actions
  MaxFaults   \* bound: losses, storage errors, restarts and DHCP moves

Ip(d) == <<"ip", d>>     \* the LAN address d was once filed under
Id == Device \cup {Ip(d) : d \in Device}
Address == {Ip(d) : d \in Device} \cup {Elsewhere}
Doc == [rooms : UNION {[R -> SUBSET Id] : R \in SUBSET RoomId},
        favs : SUBSET Id]
EmptyDoc == [rooms |-> [r \in {} |-> {}], favs |-> {}]

\* The rooms of g with those of f in their place.
Over(f, g) == [r \in DOMAIN f \cup DOMAIN g |->
                 IF r \in DOMAIN f THEN f[r] ELSE g[r]]

ASSUME InitFileAssumption == InitFile \in Doc
ASSUME NoRoomAssumption == NoRoom \notin RoomId
ASSUME NoTabAssumption == NoTab \notin Tab
ASSUME FavsAssumption == "favs" \notin RoomId

\* A stable id is never an address.
ASSUME IpAssumption == \A d \in Device : Ip(d) \notin Device
ASSUME ElsewhereAssumption == Elsewhere \notin Id

\* Two devices never have one address.
Apiece(h) == \A d, e \in Device : h[d] = h[e] => d = e \/ h[d] = Elsewhere
ASSUME HostsAssumption ==
  \A h \in InitHosts : h \in [Device -> Address] /\ Apiece(h)
ASSUME BoundsAssumption ==
  MaxOps \in Nat /\ MaxFaults \in Nat /\ Handled \subseteq Device

VARIABLES
  file,      \* the document on disk
  used,      \* room ids handed out so far (uuid4)
  migrated,  \* the registry's _migrated_ids
  host,      \* the address at which each device is found now
  backup,    \* the document the user last downloaded
  view,      \* view[t]: groups and favorites in the store of tab t
  load,      \* load[t]: what load() of tab t still waits for, and has got
  pending,   \* edits whose promise has not settled
  wire,      \* requests and answers under way
  ops,       \* number of user actions so far
  faults,    \* number of faults so far
  wish,      \* history: where the user last put each device and star
  doubt,     \* history: placements a fault has touched
  carried,   \* history: devices that somebody may still have listed under the
             \* address they were filed under, though they were migrated
  last,      \* history: the tab that last edited a room or the stars
  muddled    \* history: an edit built on a stale view, met another, or the
             \* file was replaced because it could not be read

vars == <<file, used, migrated, host, backup, view, load, pending, wire, ops,
          faults, wish, doubt, carried, last, muddled>>
server == <<file, used, migrated, host>>
history == <<wish, doubt, carried, last, muddled>>

Place == RoomId \cup {"favs"}
Subject == {"room", "star"} \X Device
Act == {"create", "update", "rename", "delete", "star", "restore"}
Op == 1..MaxOps
Part == {"rooms", "favs"}

\* The devices a list of ids stands for.
Meant(S) == {d \in Device : d \in S \/ Ip(d) \in S}
MeantRooms(doc, d) == {r \in DOMAIN doc.rooms : d \in Meant(doc.rooms[r])}
Listed(doc) == doc.favs \cup UNION {doc.rooms[r] : r \in DOMAIN doc.rooms}
WishOf(doc) == [room |-> [d \in Device |-> MeantRooms(doc, d)],
                star |-> Meant(doc.favs)]

TypeOK ==
  /\ file \in Doc /\ backup \in Doc
  /\ used \subseteq RoomId /\ migrated \subseteq Device
  /\ host \in [Device -> Address] /\ Apiece(host)
  /\ view \in [Tab -> Doc]
  /\ load \in [Tab -> [left : SUBSET (Part \cup {"answer"}), got : Doc]]
  /\ \A p \in pending : p \in [op : Op, tab : Tab, of : Part, prev : Doc]
  /\ \A q \in wire : q \in [op : Op, tab : Tab, act : Act, doc : Doc,
       subj : SUBSET Subject, touch : SUBSET Place,
       at : {"sent", "ok", "fail"}]
  /\ ops \in 0..MaxOps /\ faults \in 0..MaxFaults
  /\ wish \in [room : [Device -> SUBSET RoomId], star : SUBSET Device]
  /\ doubt \subseteq Subject /\ carried \subseteq Device
  /\ last \in [Place -> Tab \cup {NoTab}]
  /\ muddled \in BOOLEAN
  /\ \A p \in pending : \E q \in wire : q.op = p.op     \* none is forgotten
  /\ DOMAIN file.rooms \subseteq used                   \* ids are the server's

\* The page of every tab has just been opened on the stored rooms.
Loading == [left |-> Part \cup {"answer"}, got |-> EmptyDoc]
Init ==
  /\ file = InitFile /\ backup = InitFile
  /\ used = DOMAIN InitFile.rooms
  /\ migrated = {} /\ host \in InitHosts
  /\ view = [t \in Tab |-> EmptyDoc]
  /\ load = [t \in Tab |-> Loading]
  /\ pending = {} /\ wire = {}
  /\ ops = 0 /\ faults = 0
  /\ wish = WishOf(InitFile)
  /\ doubt = {} /\ carried = {}
  /\ last = [p \in Place |-> NoTab]
  /\ muddled = FALSE

-----------------------------------------------------------------------------
(* The tabs: GroupsStore                                                   *)

Fragment(r, ids) == [EmptyDoc EXCEPT !.rooms = [x \in {r} |-> ids]]
Busy(P) == \E q \in wire : q.touch \cap P # {}
Awaited(s) == \E q \in wire : s \in q.subj

\* An edit applies at once and sends its requests: a set of <<act, doc>>.
\* `sound`: the tab shows the store's truth about what the edit is about.
Edit(t, of, new, msgs, subj, touch, sound) ==
  /\ ops < MaxOps /\ ops' = ops + 1
  /\ view' = [view EXCEPT ![t] = new]
  /\ pending' = pending \cup
       {[op |-> ops + 1, tab |-> t, of |-> of, prev |-> view[t]]}
  /\ wire' = wire \cup
       {[op |-> ops + 1, tab |-> t, act |-> m[1], doc |-> m[2],
         subj |-> subj, touch |-> touch, at |-> "sent"] : m \in msgs}
  /\ muddled' = (\/ muddled \/ ~sound \/ load[t].left # {}
                 \/ Busy(touch) \/ \E s \in subj : Awaited(s))
  /\ last' = [p \in Place |-> IF p \in touch THEN t ELSE last[p]]
  /\ carried' = carried \cup
       {d \in Device : \E m \in msgs : Ip(d) \in Listed(m[2])}
  /\ UNCHANGED <<server, backup, load, faults, doubt>>

InView(t, r) == r \in DOMAIN view[t].rooms
SameRoom(t, r) ==
  /\ InView(t, r) /\ r \in DOMAIN file.rooms
  /\ view[t].rooms[r] = file.rooms[r]

\* assignDevice.  A device in two rooms is taken for one of the first found.
AssignDevice(t, d, to) ==
  LET rooms == view[t].rooms
      here == {r \in DOMAIN rooms : d \in rooms[r]}
  IN \E current \in IF here = {} THEN {NoRoom} ELSE here :
       LET moved == [r \in DOMAIN rooms |->
                       IF r = current THEN rooms[r] \ {d}
                       ELSE IF r = to THEN rooms[r] \cup {d} ELSE rooms[r]]
           changed == {r \in DOMAIN rooms : moved[r] # rooms[r]}
           both == {current, to} \ {NoRoom}
       IN /\ to \in DOMAIN rooms \cup {NoRoom} /\ to # current
          /\ Edit(t, "rooms", [view[t] EXCEPT !.rooms = moved],
                  {<<"update", Fragment(r, moved[r])>> : r \in changed},
                  {<<"room", d>>}, both,
                  /\ \A r \in both : SameRoom(t, r) /\ Ip(d) \notin moved[r]
                  /\ MeantRooms(file, d) \subseteq both)
          /\ wish' = [wish EXCEPT !.room[d] = {to} \ {NoRoom}]

\* deleteRoom: its devices end up in no room.
DeleteRoom(t, r) ==
  LET kept == DOMAIN view[t].rooms \ {r}
      inside == Meant(view[t].rooms[r])
  IN /\ InView(t, r)
     /\ Edit(t, "rooms",
             [view[t] EXCEPT !.rooms = [x \in kept |-> view[t].rooms[x]]],
             {<<"delete", Fragment(r, {})>>},
             {<<"room", d>> : d \in inside}, {r}, SameRoom(t, r))
     /\ wish' = [wish EXCEPT !.room = [d \in Device |-> @[d] \ {r}]]

\* renameRoom: the name is not modelled, the revert on failure is.
RenameRoom(t, r) ==
  /\ InView(t, r)
  /\ Edit(t, "rooms", view[t], {<<"rename", Fragment(r, {})>>}, {}, {r},
          SameRoom(t, r))
  /\ UNCHANGED wish

\* createRoom: not optimistic, the room appears with the answer.
CreateRoom(t) ==
  /\ Edit(t, "rooms", view[t], {<<"create", EmptyDoc>>}, {}, {}, TRUE)
  /\ UNCHANGED wish

\* toggleFavorite sends the whole list.
ToggleFavorite(t, d) ==
  LET on == d \notin view[t].favs
      stars == IF on THEN view[t].favs \cup {d} ELSE view[t].favs \ {d}
      new == [view[t] EXCEPT !.favs = stars]
  IN /\ Edit(t, "favs", new, {<<"star", [EmptyDoc EXCEPT !.favs = stars]>>},
             {<<"star", d>>}, {"favs"},
             view[t].favs = file.favs /\ Ip(d) \notin stars)
     /\ wish' = [wish EXCEPT !.star = IF on THEN @ \cup {d} ELSE @ \ {d}]

\* confirmRestore: the backup goes to the server; the tab keeps showing what
\* it shows.
ConfirmRestore(t) ==
  /\ ops < MaxOps /\ ops' = ops + 1
  /\ wire' = wire \cup
       {[op |-> ops + 1, tab |-> t, act |-> "restore", doc |-> backup,
         subj |-> Subject, touch |-> Place, at |-> "sent"]}
  /\ wish' = WishOf(backup)
  /\ doubt' = {}
  /\ carried' = carried \cup {d \in Device : Ip(d) \in Listed(backup)}
  /\ last' = [p \in Place |-> NoTab]
  /\ muddled' = (muddled \/ wire # {})
  /\ UNCHANGED <<server, backup, view, load, pending, faults>>

\* The fetches of an edit end.  Promise.all waits for all of them, but the
\* first failure settles it.
Settled(q) == {p \in pending : p.op = q.op}

\* catch: the list as it was before the edit comes back.
Revert(v, p) == IF p.of = "rooms" THEN [v EXCEPT !.rooms = p.prev.rooms]
                ELSE [v EXCEPT !.favs = p.prev.favs]

\* Mutant: the revert stands in a finally, not in the catch.
AnswerOkReverts(q) ==
  /\ q.at = "ok"
  /\ wire' = wire \ {q}
  /\ pending' = pending \ Settled(q)
  /\ view' = [view EXCEPT ![q.tab] =
       IF Settled(q) = {} THEN @
       ELSE Revert(@, CHOOSE p \in Settled(q) : TRUE)]
  /\ UNCHANGED <<server, backup, load, ops, faults, history>>

\* What the tab takes over from the answer.
Adopt(v, q) ==
  IF q.act = "star" THEN [v EXCEPT !.favs = q.doc.favs]
  ELSE IF q.act = "create" THEN [v EXCEPT !.rooms = Over(@, q.doc.rooms)]
  ELSE v

AnswerOk(q) ==
  LET others == {o \in wire \ {q} : o.op = q.op}
  IN /\ q.at = "ok"
     /\ wire' = wire \ {q}
     /\ pending' = IF others = {} THEN pending \ Settled(q) ELSE pending
     /\ view' = IF Settled(q) = {} THEN view
                ELSE [view EXCEPT ![q.tab] = Adopt(@, q)]
     /\ UNCHANGED <<server, backup, load, ops, faults, history>>

\* Mutant: a failed edit stays open.
AnswerFailedOpen(q) ==
  /\ q.at = "fail"
  /\ wire' = wire \ {q}
  /\ UNCHANGED <<server, backup, view, load, pending, ops, faults, history>>

AnswerFailed(q) ==
  /\ q.at = "fail"
  /\ wire' = wire \ {q}
  /\ pending' = pending \ Settled(q)
  /\ view' = [view EXCEPT ![q.tab] =
       IF q.act = "create" \/ Settled(q) = {} THEN @
       ELSE Revert(@, CHOOSE p \in Settled(q) : TRUE)]
  /\ UNCHANGED <<server, backup, load, ops, faults, history>>

\* load(): two GETs, each answered with what the file holds then.
ReadPart(t, part, unreadable) ==
  LET doc == IF unreadable THEN EmptyDoc ELSE file
  IN /\ part \in load[t].left
     /\ unreadable => faults < MaxFaults
     /\ faults' = faults + IF unreadable THEN 1 ELSE 0
     /\ load' = [load EXCEPT ![t].left = @ \ {part},
          ![t].got = IF part = "rooms" THEN [@ EXCEPT !.rooms = doc.rooms]
                     ELSE [@ EXCEPT !.favs = doc.favs]]
     /\ UNCHANGED <<server, backup, view, pending, wire, ops, history>>

Loaded(t) ==
  /\ load[t].left = {"answer"}
  /\ view' = [view EXCEPT ![t] = load[t].got]
  /\ load' = [load EXCEPT ![t] = [left |-> {}, got |-> EmptyDoc]]
  /\ UNCHANGED <<server, backup, pending, wire, ops, faults, history>>

\* Rooms are best-effort: the lists stay as they are.
LoadFails(t) ==
  /\ load[t].left # {} /\ faults < MaxFaults
  /\ load' = [load EXCEPT ![t] = [left |-> {}, got |-> EmptyDoc]]
  /\ faults' = faults + 1
  /\ UNCHANGED <<server, backup, view, pending, wire, ops, history>>

\* The user opens the page anew; requests of the old page stay under way.
Reload(t) ==
  /\ ops < MaxOps /\ ops' = ops + 1
  /\ view' = [view EXCEPT ![t] = EmptyDoc]
  /\ load' = [load EXCEPT ![t] = Loading]
  /\ pending' = {p \in pending : p.tab # t}
  /\ last' = [p \in Place |-> IF last[p] = t THEN NoTab ELSE last[p]]
  /\ UNCHANGED <<server, backup, wire, faults, wish, doubt, carried, muddled>>

\* downloadJson: GET /api/backup.
Download(unreadable) ==
  /\ ops < MaxOps /\ ops' = ops + 1
  /\ unreadable => faults < MaxFaults
  /\ faults' = faults + IF unreadable THEN 1 ELSE 0
  /\ backup' = IF unreadable THEN EmptyDoc ELSE file
  /\ UNCHANGED <<server, view, load, pending, wire, history>>

-----------------------------------------------------------------------------
(* The server                                                              *)

\* How the file behaves during one handler.
IO == {"fine", "unreadable", "unwritable"}
Read(io) == IF io = "unreadable" THEN EmptyDoc ELSE file
Save(doc, io) == file' = IF io = "unwritable" THEN file ELSE doc

Handle(q, act, io, how, doc) ==
  /\ q.act \in act /\ q.at = "sent"
  /\ io # "fine" => faults < MaxFaults
  /\ faults' = faults + IF io = "fine" THEN 0 ELSE 1
  /\ wire' = (wire \ {q}) \cup {[q EXCEPT !.at = how, !.doc = doc]}
  /\ doubt' = IF io = "fine" THEN doubt ELSE doubt \cup q.subj
  /\ UNCHANGED <<migrated, host, backup, view, load, pending, ops, wish,
                 carried, last>>

\* Mutant: a room the file does not show is written anyway.
UpdateOrAdd(q, io) ==
  LET doc == Read(io)
  IN /\ Handle(q, {"update", "rename"}, io, "ok", q.doc)
     /\ IF q.act = "update"
        THEN Save([doc EXCEPT !.rooms = Over(q.doc.rooms, @)], io)
        ELSE UNCHANGED file
     /\ UNCHANGED <<used, muddled>>

\* update_group: only the fields of the PATCH, 404 for an unknown room.
UpdateGroup(q, io) ==
  LET doc == Read(io)
      known == DOMAIN q.doc.rooms \subseteq DOMAIN doc.rooms
  IN /\ Handle(q, {"update", "rename"}, io, IF known THEN "ok" ELSE "fail",
               q.doc)
     /\ IF known /\ q.act = "update"
        THEN Save([doc EXCEPT !.rooms = Over(q.doc.rooms, @)], io)
        ELSE UNCHANGED file
     /\ UNCHANGED <<used, muddled>>

\* delete_group.
DeleteGroup(q, io) ==
  LET doc == Read(io)
      kept == DOMAIN doc.rooms \ DOMAIN q.doc.rooms
      known == kept # DOMAIN doc.rooms
  IN /\ Handle(q, {"delete"}, io, IF known THEN "ok" ELSE "fail", q.doc)
     /\ IF known
        THEN Save([doc EXCEPT !.rooms = [r \in kept |-> doc.rooms[r]]], io)
        ELSE UNCHANGED file
     /\ UNCHANGED <<used, muddled>>

\* create_group.  An unreadable file counts as an empty one, and is replaced.
CreateGroup(q, io, r) ==
  /\ r \notin used /\ used' = used \cup {r}
  /\ Handle(q, {"create"}, io, "ok", Fragment(r, {}))
  /\ Save([Read(io) EXCEPT !.rooms = Over([x \in {r} |-> {}], @)], io)
  /\ muddled' = (muddled \/ io = "unreadable")

\* set_favorites: the same.
SetFavorites(q, io) ==
  /\ Handle(q, {"star"}, io, "ok", q.doc)
  /\ Save([Read(io) EXCEPT !.favs = q.doc.favs], io)
  /\ muddled' = (muddled \/ io = "unreadable")
  /\ UNCHANGED used

\* restore_backup, its replace_all of this store: nothing is read.
RestoreGroups(q, io) ==
  /\ io # "unreadable"
  /\ Handle(q, {"restore"}, io, "ok", q.doc)
  /\ Save(q.doc, io)
  /\ UNCHANGED <<used, muddled>>

Rekey(S, a, d) == IF a \in S THEN (S \ {a}) \cup {d} ELSE S

\* Mutant: the favorites are forgotten.
RekeyRooms(doc, a, d) ==
  [doc EXCEPT !.rooms = [r \in DOMAIN @ |-> Rekey(@[r], a, d)]]

\* migrate_device_id: every room and the favorites.
RekeyDoc(doc, a, d) ==
  [rooms |-> [r \in DOMAIN doc.rooms |-> Rekey(doc.rooms[r], a, d)],
   favs |-> Rekey(doc.favs, a, d)]

\* Who is mistaken for whom when what is filed under the address of d now
\* becomes d's: nobody if it is d's own old address.
Mistaken(d) ==
  {"room", "star"} \X
    {e \in Device : host[d] # Ip(d) /\ (e = d \/ Ip(e) = host[d])}

\* A pass finds d: _migrate_identity takes what is filed under the address d
\* has now for d's, once per id and process, whether the store could be read
\* and written or not.
Discover(d, io) ==
  LET doc == Read(io)
      new == RekeyDoc(doc, host[d], d)
  IN /\ d \notin migrated /\ migrated' = migrated \cup {d}
     /\ io # "fine" => faults < MaxFaults
     /\ faults' = faults + IF io = "fine" THEN 0 ELSE 1
     /\ IF new # doc THEN Save(new, io) ELSE UNCHANGED file
     /\ carried' = IF /\ io = "fine" /\ host[d] = Ip(d)
                      /\ \A q \in wire : Ip(d) \notin Listed(q.doc)
                   THEN carried \ {d} ELSE carried \cup {d}
     /\ doubt' = IF file' = file THEN doubt ELSE doubt \cup Mistaken(d)
     /\ last' = [p \in Place |-> IF new # doc THEN NoTab ELSE last[p]]
     /\ UNCHANGED <<used, host, backup, view, load, pending, wire, ops, wish,
                    muddled>>

\* DHCP gives d another address.
Move(d, a) ==
  /\ faults < MaxFaults /\ faults' = faults + 1
  /\ a # host[d] /\ host' = [host EXCEPT ![d] = a]
  /\ Apiece(host')
  /\ UNCHANGED <<file, used, migrated, backup, view, load, pending, wire, ops,
                 history>>

\* The server is restarted.
Restart ==
  /\ faults < MaxFaults /\ faults' = faults + 1
  /\ migrated' = {}
  /\ UNCHANGED <<file, used, host, backup, view, load, pending, wire, ops,
                 history>>

\* A request never arrives, or its answer never comes back.
Lose(q) ==
  /\ q.at \in {"sent", "ok"} /\ faults < MaxFaults
  /\ faults' = faults + 1
  /\ wire' = (wire \ {q}) \cup {[q EXCEPT !.at = "fail"]}
  /\ doubt' = doubt \cup q.subj
  /\ UNCHANGED <<server, backup, view, load, pending, ops, wish, carried,
                 last, muddled>>

-----------------------------------------------------------------------------
Click ==
  \E t \in Tab :
    \/ \E d \in Handled, to \in RoomId \cup {NoRoom} : AssignDevice(t, d, to)
    \/ \E r \in RoomId : DeleteRoom(t, r) \/ RenameRoom(t, r)
    \/ CreateRoom(t) \/ ConfirmRestore(t) \/ Reload(t)
    \/ \E d \in Handled : ToggleFavorite(t, d)

Serve ==
  \E q \in wire, io \in IO :
    \/ UpdateGroup(q, io) \/ DeleteGroup(q, io)
    \/ \E r \in RoomId : CreateGroup(q, io, r)
    \/ SetFavorites(q, io) \/ RestoreGroups(q, io)

Background ==
  \/ \E t \in Tab, part \in Part, bad \in BOOLEAN : ReadPart(t, part, bad)
  \/ \E t \in Tab : Loaded(t) \/ LoadFails(t)
  \/ \E bad \in BOOLEAN : Download(bad)
  \/ \E d \in Handled, io \in IO : Discover(d, io)
  \/ \E d \in Handled, a \in Address : Move(d, a)
  \/ Restart

Next ==
  \/ Click \/ Serve \/ Background
  \/ \E q \in wire : AnswerOk(q) \/ AnswerFailed(q) \/ Lose(q)

Spec == Init /\ [][Next]_vars

-----------------------------------------------------------------------------
(* Properties                                                              *)

\* Where the server's file has d: under its stable id once it was found at the
\* address it is filed under, if nobody has written the address since.
RoomsOf(d) == IF d \in migrated \ carried
              THEN {r \in DOMAIN file.rooms : d \in file.rooms[r]}
              ELSE MeantRooms(file, d)
Starred(d) == IF d \in migrated \ carried
              THEN d \in file.favs ELSE d \in Meant(file.favs)

\* As long as edits are built on what the store holds and do not touch the
\* same rooms or devices at once, the file has every device in the one room
\* and with the star the user last gave it, whatever tabs, discovery and
\* restores interleave, wherever devices move and whatever is lost; open are
\* only the device a fault hit itself, and the two of which one was found at
\* the address the other was filed under.
EditsSettle ==
  ~muddled =>
    \A d \in Device :
      /\ <<"room", d>> \notin doubt /\ ~Awaited(<<"room", d>>)
           => RoomsOf(d) = wish.room[d]
      /\ <<"star", d>> \notin doubt /\ ~Awaited(<<"star", d>>)
           => (Starred(d) <=> d \in wish.star)

\* Optimism is redeemed: without faults, the tab that last edited a room or
\* the stars shows what the file has there once its requests are answered.
EditorSeesStore ==
  ~muddled /\ faults = 0 =>
    \A p \in Place : last[p] # NoTab /\ ~Busy({p}) =>
      IF p = "favs" THEN view[last[p]].favs = file.favs
      ELSE /\ p \in DOMAIN file.rooms <=> InView(last[p], p)
           /\ InView(last[p], p) => view[last[p]].rooms[p] = file.rooms[p]
=============================================================================
