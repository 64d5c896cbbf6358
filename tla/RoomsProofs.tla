----------------------------- MODULE RoomsProofs -----------------------------
(***************************************************************************)
(* Proofs about rooms and favorites, for every number of tabs, devices,    *)
(* rooms, user actions and faults: the types and what TypeOK says besides, *)
(* that undisturbed edits settle in the file where the user put them, and  *)
(* that the tab that edited shows what the file holds.                     *)
(***************************************************************************)
EXTENDS Rooms, TLAPS

-----------------------------------------------------------------------------
(* Documents                                                               *)

Maps == UNION {[R -> SUBSET Id] : R \in SUBSET RoomId}

LEMMA DocIs == Doc = [rooms : Maps, favs : SUBSET Id]
  BY DEF Doc, Maps

LEMMA MapIn ==
  ASSUME NEW R \in SUBSET RoomId, NEW f \in [R -> SUBSET Id]
  PROVE  f \in Maps
  BY DEF Maps

LEMMA MapOut ==
  ASSUME NEW f \in Maps
  PROVE  /\ DOMAIN f \in SUBSET RoomId /\ f \in [DOMAIN f -> SUBSET Id]
         /\ \A r \in DOMAIN f : f[r] \in SUBSET Id
<1>1. PICK R \in SUBSET RoomId : f \in [R -> SUBSET Id]
  BY DEF Maps
<1> QED BY <1>1

LEMMA DocOut ==
  ASSUME NEW doc \in Doc
  PROVE  /\ doc.rooms \in Maps /\ doc.favs \in SUBSET Id
         /\ DOMAIN doc.rooms \in SUBSET RoomId
         /\ \A r \in DOMAIN doc.rooms : doc.rooms[r] \in SUBSET Id
         /\ doc = [rooms |-> doc.rooms, favs |-> doc.favs]
<1>1. /\ doc.rooms \in Maps /\ doc.favs \in SUBSET Id
      /\ doc = [rooms |-> doc.rooms, favs |-> doc.favs]
  BY DocIs
<1>2. /\ DOMAIN doc.rooms \in SUBSET RoomId
      /\ \A r \in DOMAIN doc.rooms : doc.rooms[r] \in SUBSET Id
  BY <1>1, MapOut
<1> QED BY <1>1, <1>2

LEMMA EmptyDocIn == EmptyDoc \in Doc /\ DOMAIN EmptyDoc.rooms = {}
                    /\ EmptyDoc.favs = {}
<1>1. [r \in {} |-> {}] \in Maps
  <2> DEFINE f == [r \in {} |-> {}]
  <2>1. f \in [{} -> SUBSET Id] /\ {} \in SUBSET RoomId
    OBVIOUS
  <2> HIDE DEF f
  <2>2. f \in Maps
    BY <2>1, MapIn
  <2> QED BY <2>2 DEF f
<1>2. DOMAIN [r \in {} |-> {}] = {}
  OBVIOUS
<1> QED BY <1>1, <1>2, DocIs DEF EmptyDoc

LEMMA FragmentIn ==
  ASSUME NEW r \in RoomId, NEW ids \in SUBSET Id
  PROVE  /\ Fragment(r, ids) \in Doc
         /\ DOMAIN Fragment(r, ids).rooms = {r}
         /\ Fragment(r, ids).rooms[r] = ids
         /\ Fragment(r, ids).favs = {}
<1>1. [x \in {r} |-> ids] \in Maps
  BY MapIn
<1>2. Fragment(r, ids) = [rooms |-> [x \in {r} |-> ids], favs |-> {}]
  BY DEF Fragment, EmptyDoc
<1> QED BY <1>1, <1>2, DocIs

LEMMA OverIn ==
  ASSUME NEW f \in Maps, NEW g \in Maps
  PROVE  /\ Over(f, g) \in Maps
         /\ DOMAIN Over(f, g) = DOMAIN f \cup DOMAIN g
<1>1. Over(f, g) \in [DOMAIN f \cup DOMAIN g -> SUBSET Id]
  BY MapOut DEF Over
<1> QED BY <1>1, MapOut, MapIn

LEMMA RoomsReplaced ==
  ASSUME NEW doc \in Doc, NEW f \in Maps
  PROVE  /\ [doc EXCEPT !.rooms = f] \in Doc
         /\ [doc EXCEPT !.rooms = f] = [rooms |-> f, favs |-> doc.favs]
         /\ [doc EXCEPT !.rooms = f].rooms = f
         /\ [doc EXCEPT !.rooms = f].favs = doc.favs
  BY DocIs

LEMMA FavsReplaced ==
  ASSUME NEW doc \in Doc, NEW S \in SUBSET Id
  PROVE  /\ [doc EXCEPT !.favs = S] \in Doc
         /\ [doc EXCEPT !.favs = S] = [rooms |-> doc.rooms, favs |-> S]
         /\ [doc EXCEPT !.favs = S].rooms = doc.rooms
         /\ [doc EXCEPT !.favs = S].favs = S
  BY DocIs

LEMMA SomeRooms ==
  ASSUME NEW f \in Maps, NEW R \in SUBSET DOMAIN f
  PROVE  [r \in R |-> f[r]] \in Maps
<1>1. R \in SUBSET RoomId /\ [r \in R |-> f[r]] \in [R -> SUBSET Id]
  BY MapOut
<1> QED BY <1>1, MapIn

LEMMA DeviceIds ==
  ASSUME NEW d \in Device PROVE d \in Id /\ Ip(d) \in Id
  BY DEF Id

LEMMA RekeyIn ==
  ASSUME NEW doc \in Doc, NEW a, NEW d \in Device
  PROVE  /\ RekeyDoc(doc, a, d) \in Doc
         /\ DOMAIN RekeyDoc(doc, a, d).rooms = DOMAIN doc.rooms
<1>1. \A S \in SUBSET Id : Rekey(S, a, d) \in SUBSET Id
  BY DeviceIds DEF Rekey
<1> DEFINE f == [r \in DOMAIN doc.rooms |-> Rekey(doc.rooms[r], a, d)]
<1>2. f \in [DOMAIN doc.rooms -> SUBSET Id]
  BY <1>1, DocOut
<1>3. f \in Maps /\ DOMAIN f = DOMAIN doc.rooms
  <2> HIDE DEF f
  <2> QED BY <1>2, DocOut, MapIn
<1>4. RekeyDoc(doc, a, d) = [rooms |-> f, favs |-> Rekey(doc.favs, a, d)]
  BY DEF RekeyDoc
<1>5. Rekey(doc.favs, a, d) \in SUBSET Id
  BY <1>1, DocOut
<1> HIDE DEF f
<1> QED BY <1>3, <1>4, <1>5, DocIs

-----------------------------------------------------------------------------
(* The types, by what they are about                                       *)

Edits == [op : Op, tab : Tab, of : Part, prev : Doc]
Requests == [op : Op, tab : Tab, act : Act, doc : Doc, subj : SUBSET Subject,
             touch : SUBSET Place, at : {"sent", "ok", "fail"}]

\* Every room that is stored, or could be by a restore, was handed out.
FileOK ==
  /\ file \in Doc /\ backup \in Doc
  /\ used \subseteq RoomId /\ migrated \subseteq Device
  /\ DOMAIN file.rooms \subseteq used /\ DOMAIN backup.rooms \subseteq used
TabsOK ==
  /\ view \in [Tab -> Doc]
  /\ load \in [Tab -> [left : SUBSET (Part \cup {"answer"}), got : Doc]]
WireOK ==
  /\ \A p \in pending : p \in Edits
  /\ \A q \in wire : q \in Requests
  /\ \A q \in wire : q.act = "restore" => DOMAIN q.doc.rooms \subseteq used
  /\ \A p \in pending : \E q \in wire : q.op = p.op
CountOK == ops \in 0..MaxOps /\ faults \in 0..MaxFaults
WishOK == wish \in [room : [Device -> SUBSET RoomId], star : SUBSET Device]
HistoryOK ==
  /\ WishOK /\ doubt \subseteq Subject /\ carried \subseteq Device
  /\ last \in [Place -> Tab \cup {NoTab}]
  /\ muddled \in BOOLEAN
TypeInv == FileOK /\ TabsOK /\ WireOK /\ CountOK /\ HistoryOK

\* Where the devices are, which only a move changes.
HostOK == host \in [Device -> Address] /\ Apiece(host)

LEMMA TypeInvImplies == TypeInv /\ HostOK => TypeOK
  BY DEF HostOK, TypeInv, FileOK, TabsOK, WireOK, CountOK, HistoryOK, WishOK,
     TypeOK, Edits, Requests

LEMMA WishOfIn ==
  ASSUME NEW doc \in Doc
  PROVE  WishOf(doc) \in [room : [Device -> SUBSET RoomId],
                          star : SUBSET Device]
<1>1. \A d \in Device : MeantRooms(doc, d) \in SUBSET RoomId
  BY DocOut DEF MeantRooms
<1>2. Meant(doc.favs) \in SUBSET Device
  BY DEF Meant
<1> QED BY <1>1, <1>2 DEF WishOf

LEMMA InitTypes == Init => TypeInv
<1> SUFFICES ASSUME Init PROVE TypeInv
  OBVIOUS
<1>1. FileOK
  BY InitFileAssumption, DocOut DEF Init, FileOK
<1>2. TabsOK
  BY EmptyDocIn DEF Init, TabsOK, Loading
<1>3. WireOK
  BY DEF Init, WireOK
<1>4. CountOK
  BY BoundsAssumption DEF Init, CountOK
<1>5. WishOK
  BY InitFileAssumption, WishOfIn DEF Init, WishOK
<1>6. HistoryOK
  BY <1>5 DEF Init, HistoryOK
<1> QED BY <1>1, <1>2, <1>3, <1>4, <1>6 DEF TypeInv

\* One more user action.
LEMMA NextOp ==
  ASSUME CountOK, ops < MaxOps
  PROVE  ops + 1 \in Op /\ ops + 1 \in 0..MaxOps
  BY BoundsAssumption DEF CountOK, Op

\* An edit, given the types of what it sends.
LEMMA EditTypes ==
  ASSUME TypeInv, NEW t \in Tab, NEW of \in Part, NEW new \in Doc,
         NEW msgs, msgs # {},
         \A m \in msgs : m[1] \in Act \ {"restore"} /\ m[2] \in Doc,
         NEW subj \in SUBSET Subject, NEW touch \in SUBSET Place,
         NEW sound, Edit(t, of, new, msgs, subj, touch, sound), WishOK'
  PROVE  TypeInv'
<1>1. ops + 1 \in Op /\ ops' \in 0..MaxOps /\ ops' = ops + 1
  BY NextOp DEF Edit, TypeInv
<1>2. FileOK'
  BY DEF Edit, server, TypeInv, FileOK
<1>3. TabsOK'
  BY DEF Edit, TypeInv, TabsOK
<1>4. CountOK'
  BY <1>1 DEF Edit, TypeInv, CountOK
<1>5. HistoryOK'
  <2>1. last' \in [Place -> Tab \cup {NoTab}]
    BY DEF Edit, TypeInv, HistoryOK
  <2>2. carried' \subseteq Device
    BY DEF Edit, TypeInv, HistoryOK
  <2>3. muddled' \in BOOLEAN
    BY Zenon DEF Edit
  <2>4. doubt' \subseteq Subject
    BY DEF Edit, TypeInv, HistoryOK
  <2> QED BY <2>1, <2>2, <2>3, <2>4 DEF HistoryOK
<1> DEFINE edit == [op |-> ops + 1, tab |-> t, of |-> of, prev |-> view[t]]
           req(m) == [op |-> ops + 1, tab |-> t, act |-> m[1], doc |-> m[2],
                      subj |-> subj, touch |-> touch, at |-> "sent"]
<1>6. view[t] \in Doc
  BY DEF TypeInv, TabsOK
<1>7. edit \in Edits
  BY <1>1, <1>6 DEF Edits
<1>8. \A m \in msgs : req(m) \in Requests /\ req(m).act # "restore"
                      /\ req(m).op = edit.op
  BY <1>1 DEF Requests
<1>9. /\ pending' = pending \cup {edit}
      /\ wire' = wire \cup {req(m) : m \in msgs}
      /\ used' = used
  BY DEF Edit, server
<1> HIDE DEF edit, req
<1>10. WireOK'
  BY <1>7, <1>8, <1>9 DEF TypeInv, WireOK
<1> QED BY <1>2, <1>3, <1>4, <1>5, <1>10 DEF TypeInv

-----------------------------------------------------------------------------
(* The edits keep the types                                                *)

LEMMA ViewIn ==
  ASSUME TypeInv, NEW t \in Tab
  PROVE  /\ view[t] \in Doc /\ view[t].rooms \in Maps
         /\ DOMAIN view[t].rooms \in SUBSET RoomId
         /\ view[t].favs \in SUBSET Id
         /\ \A r \in DOMAIN view[t].rooms : view[t].rooms[r] \in SUBSET Id
<1>1. view[t] \in Doc
  BY DEF TypeInv, TabsOK
<1> QED BY <1>1, DocOut

\* What assignDevice computes.
Here(t, d) == {r \in DOMAIN view[t].rooms : d \in view[t].rooms[r]}
Moved(t, d, current, to) ==
  [r \in DOMAIN view[t].rooms |->
     IF r = current THEN view[t].rooms[r] \ {d}
     ELSE IF r = to THEN view[t].rooms[r] \cup {d} ELSE view[t].rooms[r]]
Changed(t, d, current, to) ==
  {r \in DOMAIN view[t].rooms :
     Moved(t, d, current, to)[r] # view[t].rooms[r]}
Both(current, to) == {current, to} \ {NoRoom}

LEMMA AssignIs ==
  ASSUME NEW t \in Tab, NEW d \in Device, NEW to, AssignDevice(t, d, to)
  PROVE  \E current :
    /\ IF Here(t, d) = {} THEN current = NoRoom ELSE current \in Here(t, d)
    /\ to \in DOMAIN view[t].rooms \cup {NoRoom} /\ to # current
    /\ Edit(t, "rooms",
            [view[t] EXCEPT !.rooms = Moved(t, d, current, to)],
            {<<"update", Fragment(r, Moved(t, d, current, to)[r])>> :
               r \in Changed(t, d, current, to)},
            {<<"room", d>>}, Both(current, to),
            /\ \A r \in Both(current, to) :
                 SameRoom(t, r) /\ Ip(d) \notin Moved(t, d, current, to)[r]
            /\ MeantRooms(file, d) \subseteq Both(current, to))
    /\ wish' = [wish EXCEPT !.room[d] = {to} \ {NoRoom}]
BY DEF AssignDevice, Here, Moved, Changed, Both

LEMMA MovedIn ==
  ASSUME TypeInv, NEW t \in Tab, NEW d \in Device, NEW current, NEW to
  PROVE  /\ Moved(t, d, current, to) \in Maps
         /\ DOMAIN Moved(t, d, current, to) = DOMAIN view[t].rooms
         /\ \A r \in DOMAIN view[t].rooms :
              /\ Moved(t, d, current, to)[r] \in SUBSET Id
              /\ Moved(t, d, current, to)[r]
                   = IF r = current THEN view[t].rooms[r] \ {d}
                     ELSE IF r = to THEN view[t].rooms[r] \cup {d}
                     ELSE view[t].rooms[r]
<1>1. Moved(t, d, current, to) \in [DOMAIN view[t].rooms -> SUBSET Id]
  BY ViewIn, DeviceIds DEF Moved
<1>2. Moved(t, d, current, to) \in Maps
  BY <1>1, ViewIn, MapIn
<1>3. \A r \in DOMAIN view[t].rooms :
        Moved(t, d, current, to)[r]
          = IF r = current THEN view[t].rooms[r] \ {d}
            ELSE IF r = to THEN view[t].rooms[r] \cup {d}
            ELSE view[t].rooms[r]
  BY DEF Moved
<1> QED BY <1>1, <1>2, <1>3

\* A move changes a room, so it sends a request.
LEMMA MoveChanges ==
  ASSUME TypeInv, NEW t \in Tab, NEW d \in Device, NEW current, NEW to,
         IF Here(t, d) = {} THEN current = NoRoom ELSE current \in Here(t, d),
         to \in DOMAIN view[t].rooms \cup {NoRoom}, to # current
  PROVE  /\ Changed(t, d, current, to) # {}
         /\ Changed(t, d, current, to) \in SUBSET RoomId
         /\ Both(current, to) \in SUBSET RoomId
<1>0. /\ Changed(t, d, current, to) \in SUBSET RoomId
      /\ current \in RoomId \cup {NoRoom}
      /\ Both(current, to) \in SUBSET RoomId
  BY ViewIn DEF Changed, Both, Here
<1>1. CASE Here(t, d) = {}
  <2>1. current = NoRoom /\ to \in DOMAIN view[t].rooms
    BY <1>1
  <2>2. d \notin view[t].rooms[to]
    BY <1>1, <2>1 DEF Here
  <2>3. Moved(t, d, current, to)[to] = view[t].rooms[to] \cup {d}
    BY <2>1 DEF Moved
  <2>4. Moved(t, d, current, to)[to] # view[t].rooms[to]
    <3>1. d \in view[t].rooms[to] \cup {d}
      OBVIOUS
    <3> QED BY <2>2, <2>3, <3>1
  <2>5. to \in Changed(t, d, current, to)
    BY <2>1, <2>4, Zenon DEF Changed
  <2> QED BY <1>0, <2>5
<1>2. CASE Here(t, d) # {}
  <2>1. current \in DOMAIN view[t].rooms /\ d \in view[t].rooms[current]
    BY <1>2 DEF Here
  <2>2. Moved(t, d, current, to)[current] = view[t].rooms[current] \ {d}
    BY <2>1 DEF Moved
  <2>3. Moved(t, d, current, to)[current] # view[t].rooms[current]
    <3>1. d \notin view[t].rooms[current] \ {d}
      OBVIOUS
    <3> QED BY <2>1, <2>2, <3>1
  <2>4. current \in Changed(t, d, current, to)
    BY <2>1, <2>3, Zenon DEF Changed
  <2> QED BY <1>0, <2>4
<1> QED BY <1>1, <1>2

LEMMA AssignTypes ==
  ASSUME TypeInv, NEW t \in Tab, NEW d \in Device,
         NEW to \in RoomId \cup {NoRoom}, AssignDevice(t, d, to)
  PROVE  TypeInv'
<1>1. PICK current :
    /\ IF Here(t, d) = {} THEN current = NoRoom ELSE current \in Here(t, d)
    /\ to \in DOMAIN view[t].rooms \cup {NoRoom} /\ to # current
    /\ Edit(t, "rooms",
            [view[t] EXCEPT !.rooms = Moved(t, d, current, to)],
            {<<"update", Fragment(r, Moved(t, d, current, to)[r])>> :
               r \in Changed(t, d, current, to)},
            {<<"room", d>>}, Both(current, to),
            /\ \A r \in Both(current, to) :
                 SameRoom(t, r) /\ Ip(d) \notin Moved(t, d, current, to)[r]
            /\ MeantRooms(file, d) \subseteq Both(current, to))
    /\ wish' = [wish EXCEPT !.room[d] = {to} \ {NoRoom}]
  BY AssignIs
<1> DEFINE new == [view[t] EXCEPT !.rooms = Moved(t, d, current, to)]
           msgs == {<<"update", Fragment(r, Moved(t, d, current, to)[r])>> :
                      r \in Changed(t, d, current, to)}
           sound == /\ \A r \in Both(current, to) :
                         /\ SameRoom(t, r)
                         /\ Ip(d) \notin Moved(t, d, current, to)[r]
                    /\ MeantRooms(file, d) \subseteq Both(current, to)
<1>2. new \in Doc
  BY ViewIn, MovedIn, RoomsReplaced
<1>3. /\ Changed(t, d, current, to) # {}
      /\ Changed(t, d, current, to) \in SUBSET RoomId
      /\ Both(current, to) \in SUBSET RoomId
  BY <1>1, MoveChanges
<1>4. msgs # {}
  BY <1>3
<1>5. \A r \in Changed(t, d, current, to) :
        Fragment(r, Moved(t, d, current, to)[r]) \in Doc
  <2>1. \A r \in Changed(t, d, current, to) :
          Moved(t, d, current, to)[r] \in SUBSET Id
    BY MovedIn DEF Changed
  <2> QED BY <1>3, <2>1, FragmentIn
<1>6. \A m \in msgs : m[1] \in Act \ {"restore"} /\ m[2] \in Doc
  BY <1>5 DEF Act
<1>7. {<<"room", d>>} \in SUBSET Subject /\ Both(current, to) \in SUBSET Place
      /\ "rooms" \in Part
  BY <1>3 DEF Subject, Place, Part
<1>8. WishOK'
  BY <1>1, NoRoomAssumption DEF TypeInv, HistoryOK, WishOK
<1>9. Edit(t, "rooms", new, msgs, {<<"room", d>>}, Both(current, to), sound)
  BY <1>1
<1> HIDE DEF new, msgs, sound
<1> QED BY <1>2, <1>4, <1>6, <1>7, <1>8, <1>9, EditTypes

LEMMA DeleteTypes ==
  ASSUME TypeInv, NEW t \in Tab, NEW r \in RoomId, DeleteRoom(t, r)
  PROVE  TypeInv'
<1> DEFINE kept == DOMAIN view[t].rooms \ {r}
           rooms == [x \in kept |-> view[t].rooms[x]]
           new == [view[t] EXCEPT !.rooms = rooms]
           msgs == {<<"delete", Fragment(r, {})>>}
           subj == {<<"room", d>> : d \in Meant(view[t].rooms[r])}
<1>1. rooms \in Maps
  BY ViewIn, SomeRooms
<1>2. new \in Doc
  <2> HIDE DEF rooms
  <2> QED BY <1>1, ViewIn, RoomsReplaced
<1>3. Fragment(r, {}) \in Doc
  BY FragmentIn
<1>4. msgs # {} /\ \A m \in msgs : m[1] \in Act \ {"restore"} /\ m[2] \in Doc
  BY <1>3 DEF Act
<1>5. subj \in SUBSET Subject /\ {r} \in SUBSET Place /\ "rooms" \in Part
  BY DEF Meant, Subject, Place, Part
<1>6. wish' = [wish EXCEPT !.room = [d \in Device |-> @[d] \ {r}]]
  BY DEF DeleteRoom
<1>7. WishOK'
  BY <1>6 DEF TypeInv, HistoryOK, WishOK
<1>8. Edit(t, "rooms", new, msgs, subj, {r}, SameRoom(t, r))
  BY DEF DeleteRoom
<1> HIDE DEF new, msgs, subj
<1> QED BY <1>2, <1>4, <1>5, <1>7, <1>8, EditTypes

LEMMA RenameTypes ==
  ASSUME TypeInv, NEW t \in Tab, NEW r \in RoomId, RenameRoom(t, r)
  PROVE  TypeInv'
<1> DEFINE msgs == {<<"rename", Fragment(r, {})>>}
<1>1. Fragment(r, {}) \in Doc
  BY FragmentIn
<1>2. msgs # {} /\ \A m \in msgs : m[1] \in Act \ {"restore"} /\ m[2] \in Doc
  BY <1>1 DEF Act
<1>3. {r} \in SUBSET Place /\ "rooms" \in Part
  BY DEF Place, Part
<1>4. Edit(t, "rooms", view[t], msgs, {}, {r}, SameRoom(t, r)) /\ wish' = wish
  BY DEF RenameRoom
<1>5. WishOK'
  BY <1>4 DEF TypeInv, HistoryOK, WishOK
<1> HIDE DEF msgs
<1> QED BY <1>2, <1>3, <1>4, <1>5, ViewIn, EditTypes

LEMMA CreateTypes ==
  ASSUME TypeInv, NEW t \in Tab, CreateRoom(t) PROVE TypeInv'
<1> DEFINE msgs == {<<"create", EmptyDoc>>}
<1>1. msgs # {} /\ \A m \in msgs : m[1] \in Act \ {"restore"} /\ m[2] \in Doc
  BY EmptyDocIn DEF Act
<1>2. "rooms" \in Part
  BY DEF Part
<1>3. Edit(t, "rooms", view[t], msgs, {}, {}, TRUE) /\ wish' = wish
  BY DEF CreateRoom
<1>4. WishOK'
  BY <1>3 DEF TypeInv, HistoryOK, WishOK
<1> HIDE DEF msgs
<1> QED BY <1>1, <1>2, <1>3, <1>4, ViewIn, EditTypes

\* The list a star is toggled in.
Stars(t, d) == IF d \notin view[t].favs THEN view[t].favs \cup {d}
               ELSE view[t].favs \ {d}

LEMMA ToggleTypes ==
  ASSUME TypeInv, NEW t \in Tab, NEW d \in Device, ToggleFavorite(t, d)
  PROVE  TypeInv'
<1> DEFINE new == [view[t] EXCEPT !.favs = Stars(t, d)]
           doc == [EmptyDoc EXCEPT !.favs = Stars(t, d)]
           msgs == {<<"star", doc>>}
           sound == view[t].favs = file.favs /\ Ip(d) \notin Stars(t, d)
<1>1. Stars(t, d) \in SUBSET Id
  BY ViewIn, DeviceIds DEF Stars
<1>2. new \in Doc /\ doc \in Doc
  BY <1>1, ViewIn, EmptyDocIn, FavsReplaced
<1>3. msgs # {} /\ \A m \in msgs : m[1] \in Act \ {"restore"} /\ m[2] \in Doc
  BY <1>2 DEF Act
<1>4. {<<"star", d>>} \in SUBSET Subject /\ {"favs"} \in SUBSET Place
      /\ "favs" \in Part
  BY DEF Subject, Place, Part
<1>5. Edit(t, "favs", new, msgs, {<<"star", d>>}, {"favs"}, sound)
  BY DEF ToggleFavorite, Stars
<1>6. wish'.star \in SUBSET Device /\ wish' = [wish EXCEPT !.star = wish'.star]
  BY DEF ToggleFavorite, TypeInv, HistoryOK, WishOK
<1>7. WishOK'
  BY <1>6 DEF TypeInv, HistoryOK, WishOK
<1> HIDE DEF new, msgs, sound
<1> QED BY <1>2, <1>3, <1>4, <1>5, <1>7, EditTypes

-----------------------------------------------------------------------------
(* Every other step keeps the types                                        *)

\* A request that is answered, or answered for good, is the same request.
LEMMA AnsweredRequest ==
  ASSUME NEW q \in Requests, NEW how \in {"sent", "ok", "fail"},
         NEW doc \in Doc
  PROVE  LET p == [q EXCEPT !.at = how, !.doc = doc]
         IN  /\ p \in Requests /\ p.op = q.op /\ p.tab = q.tab
             /\ p.act = q.act /\ p.subj = q.subj /\ p.touch = q.touch
             /\ p.at = how /\ p.doc = doc
  BY DEF Requests

LEMMA LostRequest ==
  ASSUME NEW q \in Requests
  PROVE  LET p == [q EXCEPT !.at = "fail"]
         IN  /\ p \in Requests /\ p.op = q.op /\ p.tab = q.tab
             /\ p.act = q.act /\ p.subj = q.subj /\ p.touch = q.touch
             /\ p.at = "fail" /\ p.doc = q.doc
  BY DEF Requests

\* Replacing a request by one of the same edit.
LEMMA WireReplaced ==
  ASSUME WireOK, NEW q \in wire, NEW p \in Requests, p.op = q.op,
         p.act = "restore" => DOMAIN p.doc.rooms \subseteq used',
         used \subseteq used', wire' = (wire \ {q}) \cup {p},
         pending' = pending
  PROVE  WireOK'
<1>1. \A o \in wire' : o \in Requests
  BY DEF WireOK
<1>2. \A o \in wire' : o.act = "restore" => DOMAIN o.doc.rooms \subseteq used'
  BY DEF WireOK
<1>3. ASSUME NEW e \in pending'
      PROVE  e \in Edits /\ \E o \in wire' : o.op = e.op
  <2>1. PICK o \in wire : o.op = e.op
    BY <1>3 DEF WireOK
  <2> QED BY <1>3, <2>1 DEF WireOK
<1> QED BY <1>1, <1>2, <1>3 DEF WireOK

\* Removing a request whose edit is settled or has others.
LEMMA WireRemoved ==
  ASSUME WireOK, NEW q \in wire, wire' = wire \ {q}, pending' \subseteq pending,
         \/ pending' = pending \ Settled(q)
         \/ \E o \in wire \ {q} : o.op = q.op,
         used' = used
  PROVE  WireOK'
<1>1. \A o \in wire' :
        /\ o \in Requests
        /\ o.act = "restore" => DOMAIN o.doc.rooms \subseteq used'
  BY DEF WireOK
<1>2. ASSUME NEW e \in pending'
      PROVE  e \in Edits /\ \E o \in wire' : o.op = e.op
  <2>1. e \in pending /\ e \in Edits
    BY <1>2 DEF WireOK
  <2>2. PICK o \in wire : o.op = e.op
    BY <2>1 DEF WireOK
  <2>3. CASE o # q
    BY <2>1, <2>2, <2>3
  <2>4. CASE o = q
    <3>1. e \in Settled(q)
      BY <2>1, <2>2, <2>4 DEF Settled
    <3>2. \E x \in wire \ {q} : x.op = q.op
      BY <1>2, <3>1
    <3> QED BY <2>1, <2>2, <2>4, <3>2
  <2> QED BY <2>3, <2>4
<1> QED BY <1>1, <1>2 DEF WireOK

LEMMA RestoreSentTypes ==
  ASSUME TypeInv, NEW t \in Tab, ConfirmRestore(t) PROVE TypeInv'
<1> DEFINE req == [op |-> ops + 1, tab |-> t, act |-> "restore",
                   doc |-> backup, subj |-> Subject, touch |-> Place,
                   at |-> "sent"]
<1>1. ops + 1 \in Op /\ ops' \in 0..MaxOps
  BY NextOp DEF ConfirmRestore, TypeInv
<1>2. req \in Requests /\ req.act = "restore" /\ req.doc = backup
  BY <1>1 DEF Requests, Act, TypeInv, FileOK
<1>3. wire' = wire \cup {req} /\ pending' = pending /\ used' = used
  BY DEF ConfirmRestore, server
<1> HIDE DEF req
<1>4. WireOK'
  BY <1>2, <1>3 DEF TypeInv, WireOK, FileOK
<1>5. FileOK' /\ TabsOK' /\ CountOK'
  BY <1>1 DEF ConfirmRestore, server, TypeInv, FileOK, TabsOK, CountOK
<1>6. WishOK'
  BY WishOfIn DEF ConfirmRestore, TypeInv, FileOK, WishOK
<1>7. HistoryOK'
  <2>1. muddled' \in BOOLEAN
    BY Zenon DEF ConfirmRestore
  <2>2. /\ last' \in [Place -> Tab \cup {NoTab}] /\ doubt' \subseteq Subject
        /\ carried' \subseteq Device
    BY DEF ConfirmRestore, TypeInv, HistoryOK
  <2> QED BY <1>6, <2>1, <2>2 DEF HistoryOK
<1> QED BY <1>4, <1>5, <1>7 DEF TypeInv

LEMMA HistorySame ==
  ASSUME HistoryOK, UNCHANGED history PROVE HistoryOK'
  BY DEF history, HistoryOK, WishOK

LEMMA AnswerOkTypes ==
  ASSUME TypeInv, NEW q \in wire, AnswerOk(q) PROVE TypeInv'
<1>1. q \in Requests /\ q.doc \in Doc
  BY DEF TypeInv, WireOK, Requests
<1>2. WireOK'
  BY WireRemoved DEF AnswerOk, server, TypeInv
<1>3. TabsOK'
  <2>1. ASSUME NEW t \in Tab
        PROVE  /\ [view[t] EXCEPT !.favs = q.doc.favs] \in Doc
               /\ [view[t] EXCEPT !.rooms = Over(@, q.doc.rooms)] \in Doc
    BY <1>1, ViewIn, DocOut, OverIn, RoomsReplaced, FavsReplaced
  <2>2. q.tab \in Tab
    BY <1>1 DEF Requests
  <2>3. Adopt(view[q.tab], q) \in Doc
    BY <2>1, <2>2, ViewIn DEF Adopt
  <2>4. view' \in [Tab -> Doc]
    BY <2>2, <2>3 DEF AnswerOk, TypeInv, TabsOK
  <2> QED BY <2>4 DEF AnswerOk, TypeInv, TabsOK
<1>4. FileOK' /\ CountOK'
  BY DEF AnswerOk, server, TypeInv, FileOK, CountOK
<1> QED BY <1>2, <1>3, <1>4, HistorySame DEF AnswerOk, TypeInv

LEMMA RevertIn ==
  ASSUME NEW v \in Doc, NEW p \in Edits PROVE Revert(v, p) \in Doc
<1>1. p.prev \in Doc
  BY DEF Edits
<1> QED BY <1>1, DocOut, RoomsReplaced, FavsReplaced DEF Revert

LEMMA AnswerFailedTypes ==
  ASSUME TypeInv, NEW q \in wire, AnswerFailed(q) PROVE TypeInv'
<1>1. q \in Requests /\ q.tab \in Tab
  BY DEF TypeInv, WireOK, Requests
<1>2. WireOK'
  BY WireRemoved DEF AnswerFailed, server, TypeInv
<1>3. TabsOK'
  <2>1. view' = [view EXCEPT ![q.tab] =
          IF q.act = "create" \/ Settled(q) = {} THEN @
          ELSE Revert(@, CHOOSE p \in Settled(q) : TRUE)]
    BY DEF AnswerFailed
  <2>2. ASSUME Settled(q) # {}
        PROVE  Revert(view[q.tab], CHOOSE p \in Settled(q) : TRUE) \in Doc
    <3>1. (CHOOSE p \in Settled(q) : TRUE) \in Settled(q)
      BY <2>2
    <3>2. (CHOOSE p \in Settled(q) : TRUE) \in Edits
      BY <3>1 DEF Settled, TypeInv, WireOK
    <3> QED BY <1>1, <3>2, ViewIn, RevertIn
  <2>3. view' \in [Tab -> Doc]
    <3> HIDE DEF Revert
    <3> QED BY <1>1, <2>1, <2>2, ViewIn DEF TypeInv, TabsOK
  <2> QED BY <2>3 DEF AnswerFailed, TypeInv, TabsOK
<1>4. FileOK' /\ CountOK'
  BY DEF AnswerFailed, server, TypeInv, FileOK, CountOK
<1> QED BY <1>2, <1>3, <1>4, HistorySame DEF AnswerFailed, TypeInv

LEMMA ReadPartTypes ==
  ASSUME TypeInv, NEW t \in Tab, NEW part \in Part, NEW bad \in BOOLEAN,
         ReadPart(t, part, bad)
  PROVE  TypeInv'
<1> DEFINE doc == IF bad THEN EmptyDoc ELSE file
<1>1. doc \in Doc
  BY EmptyDocIn DEF TypeInv, FileOK
<1>2. doc.rooms \in Maps /\ doc.favs \in SUBSET Id
  <2> HIDE DEF doc
  <2> QED BY <1>1, DocOut
<1>3. /\ load[t].left \in SUBSET (Part \cup {"answer"}) /\ load[t].got \in Doc
      /\ load[t] \in [left : SUBSET (Part \cup {"answer"}), got : Doc]
  BY DEF TypeInv, TabsOK
<1>4. /\ [load[t].got EXCEPT !.rooms = doc.rooms] \in Doc
      /\ [load[t].got EXCEPT !.favs = doc.favs] \in Doc
  <2> HIDE DEF doc
  <2> QED BY <1>2, <1>3, RoomsReplaced, FavsReplaced
<1>5. load' = [load EXCEPT ![t].left = @ \ {part},
          ![t].got = IF part = "rooms" THEN [@ EXCEPT !.rooms = doc.rooms]
                     ELSE [@ EXCEPT !.favs = doc.favs]]
  BY DEF ReadPart
<1>6. TabsOK'
  <2> HIDE DEF doc
  <2>1. load' \in [Tab -> [left : SUBSET (Part \cup {"answer"}), got : Doc]]
    BY <1>3, <1>4, <1>5 DEF TypeInv, TabsOK
  <2> QED BY <2>1 DEF ReadPart, TypeInv, TabsOK
<1>7. CountOK'
  BY BoundsAssumption DEF ReadPart, TypeInv, CountOK
<1>8. FileOK' /\ WireOK'
  BY DEF ReadPart, server, TypeInv, FileOK, WireOK
<1> QED BY <1>6, <1>7, <1>8, HistorySame DEF ReadPart, TypeInv

LEMMA LoadedTypes ==
  ASSUME TypeInv, NEW t \in Tab, Loaded(t) \/ LoadFails(t) PROVE TypeInv'
<1>1. TabsOK'
  BY EmptyDocIn DEF Loaded, LoadFails, TypeInv, TabsOK
<1>2. CountOK'
  BY BoundsAssumption DEF Loaded, LoadFails, TypeInv, CountOK
<1>3. FileOK' /\ WireOK'
  BY DEF Loaded, LoadFails, server, TypeInv, FileOK, WireOK
<1> QED BY <1>1, <1>2, <1>3, HistorySame DEF Loaded, LoadFails, TypeInv

LEMMA ReloadTypes ==
  ASSUME TypeInv, NEW t \in Tab, Reload(t) PROVE TypeInv'
<1>1. TabsOK'
  BY EmptyDocIn DEF Reload, Loading, TypeInv, TabsOK
<1>2. CountOK'
  BY NextOp DEF Reload, TypeInv, CountOK
<1>3. FileOK' /\ WireOK'
  BY DEF Reload, server, TypeInv, FileOK, WireOK
<1>4. HistoryOK'
  BY DEF Reload, TypeInv, HistoryOK, WishOK
<1> QED BY <1>1, <1>2, <1>3, <1>4 DEF TypeInv

LEMMA DownloadTypes ==
  ASSUME TypeInv, NEW bad \in BOOLEAN, Download(bad) PROVE TypeInv'
<1>1. FileOK'
  BY EmptyDocIn DEF Download, server, TypeInv, FileOK
<1>2. CountOK'
  BY NextOp, BoundsAssumption DEF Download, TypeInv, CountOK
<1>3. TabsOK' /\ WireOK'
  BY DEF Download, server, TypeInv, TabsOK, WireOK
<1> QED BY <1>1, <1>2, <1>3, HistorySame DEF Download, TypeInv

-----------------------------------------------------------------------------
(* The server keeps the types                                              *)

LEMMA ReadIn ==
  ASSUME TypeInv, NEW io
  PROVE  /\ Read(io) \in Doc /\ DOMAIN Read(io).rooms \subseteq used
         /\ Read(io).rooms \in Maps /\ Read(io).favs \in SUBSET Id
<1>1. Read(io) \in Doc /\ DOMAIN Read(io).rooms \subseteq used
  BY EmptyDocIn DEF Read, TypeInv, FileOK
<1> QED BY <1>1, DocOut

\* What a handler does besides the file.
LEMMA HandleTypes ==
  ASSUME TypeInv, NEW q \in wire, NEW act, NEW io, NEW how \in {"ok", "fail"},
         NEW doc \in Doc, Handle(q, act, io, how, doc),
         used \subseteq used', muddled' \in BOOLEAN,
         "restore" \in act => doc = q.doc,
         FileOK'
  PROVE  TypeInv'
<1>1. q \in Requests
  BY DEF TypeInv, WireOK
<1> DEFINE p == [q EXCEPT !.at = how, !.doc = doc]
<1>2. /\ p \in Requests /\ p.op = q.op /\ p.act = q.act /\ p.doc = doc
  <2>1. how \in {"sent", "ok", "fail"}
    OBVIOUS
  <2> QED BY <1>1, <2>1 DEF Requests
<1>3. wire' = (wire \ {q}) \cup {p} /\ pending' = pending /\ q.act \in act
  BY DEF Handle
<1> HIDE DEF p
<1>4. p.act = "restore" => DOMAIN p.doc.rooms \subseteq used'
  BY <1>2, <1>3 DEF TypeInv, WireOK
<1>5. WireOK'
  BY <1>2, <1>3, <1>4, WireReplaced DEF TypeInv
<1>6. TabsOK'
  BY DEF Handle, TypeInv, TabsOK
<1>7. CountOK'
  BY BoundsAssumption DEF Handle, TypeInv, CountOK
<1>8. HistoryOK'
  <2>1. doubt' \subseteq Subject
    BY <1>1 DEF Handle, TypeInv, HistoryOK, Requests
  <2> QED BY <2>1 DEF Handle, TypeInv, HistoryOK, WishOK
<1> QED BY <1>5, <1>6, <1>7, <1>8 DEF TypeInv

\* Saving a document of known rooms.
LEMMA SaveTypes ==
  ASSUME TypeInv, NEW doc \in Doc, NEW io, Save(doc, io),
         UNCHANGED <<backup, migrated>>, used \subseteq used',
         used' \subseteq RoomId, DOMAIN doc.rooms \subseteq used'
  PROVE  FileOK'
<1>1. file' \in {file, doc}
  BY DEF Save
<1> QED BY <1>1 DEF TypeInv, FileOK

LEMMA SameFile ==
  ASSUME TypeInv, UNCHANGED <<file, used, backup, migrated>>
  PROVE  FileOK'
  BY DEF TypeInv, FileOK

LEMMA RequestDoc ==
  ASSUME TypeInv, NEW q \in wire
  PROVE  /\ q \in Requests /\ q.doc \in Doc /\ q.doc.rooms \in Maps
         /\ q.doc.favs \in SUBSET Id
<1>1. q \in Requests /\ q.doc \in Doc
  BY DEF TypeInv, WireOK, Requests
<1> QED BY <1>1, DocOut

LEMMA UpdateTypes ==
  ASSUME TypeInv, NEW q \in wire, NEW io \in IO, UpdateGroup(q, io)
  PROVE  TypeInv'
<1> DEFINE doc == Read(io)
           new == [doc EXCEPT !.rooms = Over(q.doc.rooms, @)]
           known == DOMAIN q.doc.rooms \subseteq DOMAIN doc.rooms
<1>1. /\ doc \in Doc /\ DOMAIN doc.rooms \subseteq used /\ doc.rooms \in Maps
  BY ReadIn
<1>2. Over(q.doc.rooms, doc.rooms) \in Maps
      /\ DOMAIN Over(q.doc.rooms, doc.rooms)
           = DOMAIN q.doc.rooms \cup DOMAIN doc.rooms
  BY <1>1, RequestDoc, OverIn
<1>3. new \in Doc /\ new.rooms = Over(q.doc.rooms, doc.rooms)
  <2> HIDE DEF doc
  <2> QED BY <1>1, <1>2, RoomsReplaced
<1>4. /\ Handle(q, {"update", "rename"}, io, IF known THEN "ok" ELSE "fail",
                q.doc)
      /\ IF known /\ q.act = "update" THEN Save(new, io) ELSE UNCHANGED file
      /\ UNCHANGED <<used, muddled>>
  BY DEF UpdateGroup
<1>5. UNCHANGED <<backup, migrated>>
  BY <1>4 DEF Handle
<1>6. used' \subseteq RoomId /\ used \subseteq used' /\ muddled' \in BOOLEAN
  BY <1>4 DEF TypeInv, FileOK, HistoryOK
<1>7. FileOK'
  <2>1. CASE known /\ q.act = "update"
    <3>1. DOMAIN new.rooms \subseteq used'
      BY <1>1, <1>2, <1>3, <1>6, <2>1
    <3> HIDE DEF new, known
    <3> QED BY <1>3, <1>4, <1>5, <1>6, <2>1, <3>1, SaveTypes
  <2>2. CASE ~(known /\ q.act = "update")
    BY <1>4, <1>5, <2>2, SameFile
  <2> QED BY <2>1, <2>2
<1> HIDE DEF new, known, doc
<1> DEFINE how == IF known THEN "ok" ELSE "fail"
<1>8. how \in {"ok", "fail"} /\ "restore" \notin {"update", "rename"}
  OBVIOUS
<1>9. Handle(q, {"update", "rename"}, io, how, q.doc)
  BY <1>4
<1> HIDE DEF how
<1> QED BY <1>6, <1>7, <1>8, <1>9, RequestDoc, HandleTypes

LEMMA DeleteGroupTypes ==
  ASSUME TypeInv, NEW q \in wire, NEW io \in IO, DeleteGroup(q, io)
  PROVE  TypeInv'
<1> DEFINE doc == Read(io)
           kept == DOMAIN doc.rooms \ DOMAIN q.doc.rooms
           known == kept # DOMAIN doc.rooms
           rooms == [r \in kept |-> doc.rooms[r]]
           new == [doc EXCEPT !.rooms = rooms]
<1>1. doc \in Doc /\ DOMAIN doc.rooms \subseteq used /\ doc.rooms \in Maps
  BY ReadIn
<1>2. rooms \in Maps /\ DOMAIN rooms = kept
  <2>1. kept \in SUBSET DOMAIN doc.rooms
    OBVIOUS
  <2> HIDE DEF kept, doc
  <2> QED BY <1>1, <2>1, SomeRooms
<1>3. new \in Doc /\ new.rooms = rooms
  <2> HIDE DEF doc, rooms
  <2> QED BY <1>1, <1>2, RoomsReplaced
<1>4. /\ Handle(q, {"delete"}, io, IF known THEN "ok" ELSE "fail", q.doc)
      /\ IF known THEN Save(new, io) ELSE UNCHANGED file
      /\ UNCHANGED <<used, muddled>>
  BY DEF DeleteGroup
<1>5. UNCHANGED <<backup, migrated>>
  BY <1>4 DEF Handle
<1>6. used' \subseteq RoomId /\ used \subseteq used' /\ muddled' \in BOOLEAN
  BY <1>4 DEF TypeInv, FileOK, HistoryOK
<1>7. DOMAIN new.rooms \subseteq used'
  <2> HIDE DEF doc, new, rooms
  <2> QED BY <1>1, <1>2, <1>3, <1>6
<1> HIDE DEF new, known, doc, rooms
<1>8. FileOK'
  BY <1>3, <1>4, <1>5, <1>6, <1>7, SaveTypes, SameFile
<1> DEFINE how == IF known THEN "ok" ELSE "fail"
<1>9. how \in {"ok", "fail"} /\ "restore" \notin {"delete"}
  OBVIOUS
<1>10. Handle(q, {"delete"}, io, how, q.doc)
  BY <1>4
<1> HIDE DEF how
<1> QED BY <1>6, <1>8, <1>9, <1>10, RequestDoc, HandleTypes

LEMMA CreateGroupTypes ==
  ASSUME TypeInv, NEW q \in wire, NEW io \in IO, NEW r \in RoomId,
         CreateGroup(q, io, r)
  PROVE  TypeInv'
<1> DEFINE doc == Read(io)
           one == [x \in {r} |-> {}]
           new == [doc EXCEPT !.rooms = Over(one, @)]
<1>1. doc \in Doc /\ DOMAIN doc.rooms \subseteq used /\ doc.rooms \in Maps
  BY ReadIn
<1>2. one \in Maps /\ DOMAIN one = {r}
  <2>1. one \in [{r} -> SUBSET Id] /\ {r} \in SUBSET RoomId
    OBVIOUS
  <2> HIDE DEF one
  <2> QED BY <2>1, MapIn
<1>3. Over(one, doc.rooms) \in Maps
      /\ DOMAIN Over(one, doc.rooms) = {r} \cup DOMAIN doc.rooms
  <2> HIDE DEF one, doc
  <2> QED BY <1>1, <1>2, OverIn
<1>4. new \in Doc /\ new.rooms = Over(one, doc.rooms)
  <2> HIDE DEF doc, one
  <2> QED BY <1>1, <1>3, RoomsReplaced
<1>5. /\ used' = used \cup {r}
      /\ Handle(q, {"create"}, io, "ok", Fragment(r, {}))
      /\ Save(new, io)
  BY DEF CreateGroup
<1>6. muddled' \in BOOLEAN
  BY Zenon DEF CreateGroup
<1>7. /\ used' \subseteq RoomId /\ used \subseteq used'
      /\ UNCHANGED <<backup, migrated>>
  BY <1>5 DEF TypeInv, FileOK, Handle
<1>8. DOMAIN new.rooms \subseteq used'
  <2> HIDE DEF doc, new, one
  <2> QED BY <1>1, <1>3, <1>4, <1>5
<1> HIDE DEF new, doc, one
<1>9. FileOK'
  BY <1>4, <1>5, <1>7, <1>8, SaveTypes
<1>10. Fragment(r, {}) \in Doc /\ "restore" \notin {"create"}
  BY FragmentIn
<1> QED BY <1>5, <1>6, <1>7, <1>9, <1>10, HandleTypes

LEMMA SetFavoritesTypes ==
  ASSUME TypeInv, NEW q \in wire, NEW io \in IO, SetFavorites(q, io)
  PROVE  TypeInv'
<1> DEFINE doc == Read(io)
           new == [doc EXCEPT !.favs = q.doc.favs]
<1>1. doc \in Doc /\ DOMAIN doc.rooms \subseteq used
  BY ReadIn
<1>2. new \in Doc /\ new.rooms = doc.rooms
  <2> HIDE DEF doc
  <2> QED BY <1>1, RequestDoc, FavsReplaced
<1>3. /\ Handle(q, {"star"}, io, "ok", q.doc)
      /\ Save(new, io) /\ used' = used
  BY DEF SetFavorites
<1>4. muddled' \in BOOLEAN
  BY Zenon DEF SetFavorites
<1>5. /\ used' \subseteq RoomId /\ used \subseteq used'
      /\ UNCHANGED <<backup, migrated>>
  BY <1>3 DEF TypeInv, FileOK, Handle
<1>6. DOMAIN new.rooms \subseteq used'
  <2> HIDE DEF doc, new
  <2> QED BY <1>1, <1>2, <1>3
<1> HIDE DEF new, doc
<1>7. FileOK'
  BY <1>2, <1>3, <1>5, <1>6, SaveTypes
<1>8. "restore" \notin {"star"}
  OBVIOUS
<1> QED BY <1>3, <1>4, <1>5, <1>7, <1>8, RequestDoc, HandleTypes

LEMMA RestoreTypes ==
  ASSUME TypeInv, NEW q \in wire, NEW io \in IO, RestoreGroups(q, io)
  PROVE  TypeInv'
<1>1. /\ Handle(q, {"restore"}, io, "ok", q.doc) /\ Save(q.doc, io)
      /\ UNCHANGED <<used, muddled>>
  BY DEF RestoreGroups
<1>2. q.act = "restore" /\ UNCHANGED <<backup, migrated>>
  BY <1>1 DEF Handle
<1>3. DOMAIN q.doc.rooms \subseteq used'
  BY <1>1, <1>2 DEF TypeInv, WireOK
<1>4. used' \subseteq RoomId /\ used \subseteq used' /\ muddled' \in BOOLEAN
  BY <1>1 DEF TypeInv, FileOK, HistoryOK
<1>5. FileOK'
  BY <1>1, <1>2, <1>3, <1>4, RequestDoc, SaveTypes
<1> QED BY <1>1, <1>4, <1>5, RequestDoc, HandleTypes

LEMMA DiscoverTypes ==
  ASSUME TypeInv, NEW d \in Device, NEW io \in IO, Discover(d, io)
  PROVE  TypeInv'
<1> DEFINE doc == Read(io)
           new == RekeyDoc(doc, host[d], d)
<1>1. new \in Doc /\ DOMAIN new.rooms \subseteq used
  BY ReadIn, RekeyIn
<1>2. IF new # doc THEN Save(new, io) ELSE UNCHANGED file
  BY DEF Discover
<1>3. FileOK'
  <2>1. file' \in {file, new}
    BY <1>2 DEF Save
  <2> HIDE DEF new
  <2> QED BY <1>1, <2>1 DEF Discover, TypeInv, FileOK
<1>4. CountOK'
  BY BoundsAssumption DEF Discover, TypeInv, CountOK
<1>5. TabsOK' /\ WireOK'
  BY DEF Discover, TypeInv, TabsOK, WireOK
<1>6. HistoryOK'
  <2>1. carried' \subseteq Device
    BY DEF Discover, TypeInv, HistoryOK
  <2>2. last' \in [Place -> Tab \cup {NoTab}]
    <3>1. last' = [p \in Place |-> IF new # doc THEN NoTab ELSE last[p]]
      BY DEF Discover
    <3> HIDE DEF new, doc
    <3> QED BY <3>1 DEF TypeInv, HistoryOK
  <2>3. UNCHANGED <<wish, muddled>>
    BY DEF Discover
  <2>4. doubt' \subseteq Subject
    BY DEF Discover, Mistaken, Subject, TypeInv, HistoryOK
  <2> QED BY <2>1, <2>2, <2>3, <2>4 DEF TypeInv, HistoryOK, WishOK
<1> QED BY <1>3, <1>4, <1>5, <1>6 DEF TypeInv

LEMMA RestartTypes == ASSUME TypeInv, Restart PROVE TypeInv'
<1>1. FileOK' /\ TabsOK' /\ WireOK'
  BY DEF Restart, TypeInv, FileOK, TabsOK, WireOK
<1>2. CountOK'
  BY BoundsAssumption DEF Restart, TypeInv, CountOK
<1> QED BY <1>1, <1>2, HistorySame DEF Restart, TypeInv

LEMMA MoveTypes ==
  ASSUME TypeInv, NEW d \in Device, NEW a, Move(d, a)
  PROVE  TypeInv'
<1>1. FileOK' /\ TabsOK' /\ WireOK'
  BY DEF Move, TypeInv, FileOK, TabsOK, WireOK
<1>2. CountOK'
  BY BoundsAssumption DEF Move, TypeInv, CountOK
<1> QED BY <1>1, <1>2, HistorySame DEF Move, TypeInv

LEMMA LoseTypes == ASSUME TypeInv, NEW q \in wire, Lose(q) PROVE TypeInv'
<1>1. q \in Requests
  BY DEF TypeInv, WireOK
<1> DEFINE p == [q EXCEPT !.at = "fail"]
<1>2. p \in Requests /\ p.op = q.op /\ p.act = q.act /\ p.doc = q.doc
  BY <1>1, LostRequest
<1>3. wire' = (wire \ {q}) \cup {p} /\ pending' = pending /\ used' = used
  BY DEF Lose, server
<1> HIDE DEF p
<1>4. WireOK'
  <2>1. p.act = "restore" => DOMAIN p.doc.rooms \subseteq used'
    BY <1>2, <1>3 DEF TypeInv, WireOK
  <2> QED BY <1>2, <1>3, <2>1, WireReplaced DEF TypeInv
<1>5. FileOK' /\ TabsOK'
  BY DEF Lose, server, TypeInv, FileOK, TabsOK
<1>6. CountOK'
  BY BoundsAssumption DEF Lose, TypeInv, CountOK
<1>7. HistoryOK'
  BY <1>1 DEF Lose, TypeInv, HistoryOK, WishOK, Requests
<1> QED BY <1>4, <1>5, <1>6, <1>7 DEF TypeInv

LEMMA TypesKept == TypeInv /\ [Next]_vars => TypeInv'
<1> SUFFICES ASSUME TypeInv, [Next]_vars PROVE TypeInv'
  OBVIOUS
<1>0. Handled \subseteq Device
  BY BoundsAssumption
<1>1. CASE Click
  BY <1>0, <1>1, AssignTypes, DeleteTypes, RenameTypes, CreateTypes,
     RestoreSentTypes, ReloadTypes, ToggleTypes DEF Click
<1>2. CASE Serve
  BY <1>2, UpdateTypes, DeleteGroupTypes, CreateGroupTypes,
     SetFavoritesTypes, RestoreTypes DEF Serve
<1>3. CASE Background
  BY <1>0, <1>3, ReadPartTypes, LoadedTypes, DownloadTypes, DiscoverTypes,
     MoveTypes, RestartTypes DEF Background
<1>4. CASE \E q \in wire : AnswerOk(q) \/ AnswerFailed(q) \/ Lose(q)
  BY <1>4, AnswerOkTypes, AnswerFailedTypes, LoseTypes
<1>5. CASE UNCHANGED vars
  BY <1>5 DEF vars, TypeInv, FileOK, TabsOK, WireOK, CountOK, HistoryOK,
     WishOK
<1> QED BY <1>1, <1>2, <1>3, <1>4, <1>5 DEF Next

LEMMA TypeInvariance == Spec => []TypeInv
<1> QED BY InitTypes, TypesKept, PTL DEF Spec

LEMMA HostKept == HostOK /\ [Next]_vars => HostOK'
<1> SUFFICES ASSUME HostOK, [Next]_vars PROVE HostOK'
  OBVIOUS
<1>0. Handled \subseteq Device
  BY BoundsAssumption
<1>1. ASSUME NEW t, NEW of, NEW new, NEW msgs, NEW subj, NEW touch,
             NEW sound, Edit(t, of, new, msgs, subj, touch, sound)
      PROVE  host' = host
  BY <1>1 DEF Edit, server
<1>2. ASSUME Click PROVE host' = host
  <2>1. ASSUME NEW t \in Tab, Reload(t) \/ ConfirmRestore(t)
        PROVE  host' = host
    BY <2>1 DEF Reload, ConfirmRestore, server
  <2>2. ASSUME NEW t \in Tab, NEW d \in Device, NEW to, AssignDevice(t, d, to)
        PROVE  host' = host
    BY <1>1, <2>2, AssignIs
  <2>3. ASSUME NEW t \in Tab, NEW r, DeleteRoom(t, r) \/ RenameRoom(t, r)
        PROVE  host' = host
    BY <1>1, <2>3 DEF DeleteRoom, RenameRoom
  <2>4. ASSUME NEW t \in Tab, NEW d, CreateRoom(t) \/ ToggleFavorite(t, d)
        PROVE  host' = host
    BY <1>1, <2>4 DEF CreateRoom, ToggleFavorite
  <2> QED BY <1>0, <1>2, <2>1, <2>2, <2>3, <2>4 DEF Click
<1>3. ASSUME Serve PROVE host' = host
  <2>1. ASSUME NEW q, NEW act, NEW io, NEW how, NEW doc,
               Handle(q, act, io, how, doc)
        PROVE  host' = host
    BY <2>1 DEF Handle
  <2> QED BY <1>3, <2>1 DEF Serve, UpdateGroup, DeleteGroup, CreateGroup,
             SetFavorites, RestoreGroups
<1>4. ASSUME Background PROVE HostOK'
  <2>1. ASSUME NEW d \in Device, NEW a \in Address, Move(d, a) PROVE HostOK'
    <3>1. host' = [host EXCEPT ![d] = a] /\ Apiece(host')
      BY <2>1 DEF Move
    <3> HIDE DEF Address, Apiece
    <3> QED BY <3>1 DEF HostOK
  <2>2. CASE \E d \in Handled, a \in Address : Move(d, a)
    BY <1>0, <2>1, <2>2
  <2>3. CASE ~\E d \in Handled, a \in Address : Move(d, a)
    <3>1. host' = host
      BY <1>4, <2>3 DEF Background, ReadPart, Loaded, LoadFails, Download,
         Discover, Restart, server, history
    <3> QED BY <3>1 DEF HostOK, Apiece
  <2> QED BY <2>2, <2>3
<1>5. ASSUME NEW q \in wire, AnswerOk(q) \/ AnswerFailed(q) \/ Lose(q)
      PROVE  host' = host
  BY <1>5 DEF AnswerOk, AnswerFailed, Lose, server
<1>6. CASE UNCHANGED vars
  BY <1>6 DEF vars, HostOK, Apiece
<1>7. host' = host => HostOK'
  BY DEF HostOK, Apiece
<1> QED BY <1>2, <1>3, <1>4, <1>5, <1>6, <1>7 DEF Next

LEMMA HostInvariance == Spec => []HostOK
<1>1. Init => HostOK
  BY HostsAssumption DEF Init, HostOK
<1> QED BY <1>1, HostKept, PTL DEF Spec

\* The stores, the tabs and what is under way keep their types; no edit is
\* left open without a request that will settle it, and every stored room
\* has an id the server handed out, whatever is restored.
THEOREM TypeCorrect == Spec => []TypeOK
<1> QED BY TypeInvImplies, TypeInvariance, HostInvariance, PTL

-----------------------------------------------------------------------------
(* The devices a list of ids stands for                                    *)

LEMMA MeantAdd ==
  ASSUME NEW S, NEW d \in Device, NEW x \in Device, x # d
  PROVE  /\ (x \in Meant(S \cup {d})) <=> (x \in Meant(S))
         /\ (x \in Meant(S \ {d})) <=> (x \in Meant(S))
<1>1. Ip(x) # d
  BY IpAssumption
<1> HIDE DEF Ip
<1> QED BY <1>1 DEF Meant

\* Only d and the device the address a was filed for are affected.
LEMMA MeantRekey ==
  ASSUME NEW S, NEW a, a \notin Device, NEW d \in Device, NEW x \in Device,
         a = Ip(d) \/ (x # d /\ Ip(x) # a)
  PROVE  (x \in Meant(Rekey(S, a, d))) <=> (x \in Meant(S))
<1>1. \A y, z \in Device : Ip(y) # z
  BY IpAssumption
<1>2. x # d => Ip(x) # Ip(d)
  BY DEF Ip
<1> HIDE DEF Ip
<1>3. CASE a \in S
  <2>1. Rekey(S, a, d) = (S \ {a}) \cup {d}
    BY <1>3 DEF Rekey
  <2>2. CASE x = d
    BY <1>3, <2>1, <2>2 DEF Meant
  <2>3. CASE x # d
    BY <1>1, <1>2, <2>1, <2>3 DEF Meant
  <2> QED BY <2>2, <2>3
<1>4. CASE a \notin S
  BY <1>4 DEF Rekey
<1> QED BY <1>3, <1>4

LEMMA RekeySame ==
  ASSUME NEW doc \in Doc, NEW a, a \notin Device, NEW d \in Device
  PROVE  /\ DOMAIN RekeyDoc(doc, a, d).rooms = DOMAIN doc.rooms
         /\ \A x \in Device : a = Ip(d) \/ (x # d /\ Ip(x) # a) =>
              /\ x \in Meant(RekeyDoc(doc, a, d).favs)
                   <=> x \in Meant(doc.favs)
              /\ \A r : r \in MeantRooms(RekeyDoc(doc, a, d), x)
                          <=> r \in MeantRooms(doc, x)
         /\ a \notin Listed(RekeyDoc(doc, a, d))
         /\ \A e \in Device : Ip(e) \in Listed(RekeyDoc(doc, a, d))
                                => Ip(e) \in Listed(doc)
<1> DEFINE new == RekeyDoc(doc, a, d)
<1>1. /\ new.favs = Rekey(doc.favs, a, d)
      /\ DOMAIN new.rooms = DOMAIN doc.rooms
      /\ \A r \in DOMAIN doc.rooms : new.rooms[r] = Rekey(doc.rooms[r], a, d)
  BY DEF RekeyDoc
<1> HIDE DEF new
<1>2. ASSUME NEW x \in Device, a = Ip(d) \/ (x # d /\ Ip(x) # a)
      PROVE  /\ x \in Meant(new.favs) <=> x \in Meant(doc.favs)
             /\ \A r : r \in MeantRooms(new, x) <=> r \in MeantRooms(doc, x)
  <2>1. x \in Meant(new.favs) <=> x \in Meant(doc.favs)
    BY <1>1, <1>2, MeantRekey
  <2>2. \A r \in DOMAIN doc.rooms :
          x \in Meant(new.rooms[r]) <=> x \in Meant(doc.rooms[r])
    BY <1>1, <1>2, MeantRekey
  <2> HIDE DEF Meant
  <2> QED BY <1>1, <2>1, <2>2 DEF MeantRooms
<1>4. a \notin Listed(new)
  <2>1. \A S : a \notin Rekey(S, a, d)
    BY DEF Rekey
  <2> QED BY <1>1, <2>1 DEF Listed
<1>5. ASSUME NEW e \in Device, NEW S, Ip(e) \in Rekey(S, a, d)
      PROVE  Ip(e) \in S
  BY <1>5, IpAssumption DEF Rekey
<1>6. ASSUME NEW e \in Device, Ip(e) \in Listed(new)
      PROVE  Ip(e) \in Listed(doc)
  BY <1>1, <1>5, <1>6 DEF Listed
<1> HIDE DEF Meant, MeantRooms
<1> QED BY <1>1, <1>2, <1>4, <1>6 DEF new

-----------------------------------------------------------------------------
(* What the requests under way mean                                        *)

\* Two requests are about different places and subjects, or are the two of one
\* move.
Alone(q, p) == q.touch \cap p.touch = {} /\ q.subj \cap p.subj = {}
Siblings(q, p) == /\ q.act = "update" /\ p.act = "update"
                  /\ DOMAIN q.doc.rooms \cap DOMAIN p.doc.rooms = {}
Apart == \A q, p \in wire : q = p \/ Alone(q, p) \/ Siblings(q, p)

\* A request carries what the user wants of the device it is about, and what
\* the file holds of the others; only those in doubt it may show as they were.
UpdateMeans(q) ==
  \E d \in Device, r \in DOMAIN file.rooms :
    /\ DOMAIN q.doc.rooms = {r} /\ r \in q.touch /\ q.subj = {<<"room", d>>}
    /\ \A e \in Device \ {d} :
         \/ <<"room", e>> \in doubt
         \/ r \in MeantRooms(q.doc, e) <=> r \in MeantRooms(file, e)
    /\ r \in MeantRooms(q.doc, d) <=> r \in wish.room[d]
DeleteMeans(q) ==
  \E r \in RoomId :
    /\ DOMAIN q.doc.rooms = {r} /\ r \in q.touch
    /\ \A d \in Device : <<"star", d>> \notin q.subj /\ r \notin wish.room[d]
StarMeans(q) ==
  \E d \in Device :
    /\ "favs" \in q.touch /\ q.subj = {<<"star", d>>}
    /\ \A e \in Device \ {d} :
         \/ <<"star", e>> \in doubt
         \/ e \in Meant(q.doc.favs) <=> e \in Meant(file.favs)
    /\ d \in Meant(q.doc.favs) <=> d \in wish.star
RestoreMeans(q) ==
  q.subj = Subject /\ q.touch = Place /\ wish = WishOf(q.doc)

\* Renaming and creating a room are about no device.
MeansWell(q) ==
  \/ q.act = "update" /\ UpdateMeans(q)
  \/ q.act = "delete" /\ DeleteMeans(q)
  \/ q.act = "star" /\ StarMeans(q)
  \/ q.act = "restore" /\ RestoreMeans(q)
  \/ q.act \in {"create", "rename"} /\ q.subj = {}
Means == \A q \in wire : q.at = "sent" => MeansWell(q)

\* Nothing is forgotten: where a device is and whether it is starred is as the
\* user wants, hit by a fault, or still to be decided by a request.
Decides(q, d, r) ==
  /\ q.at = "sent" /\ <<"room", d>> \in q.subj
  /\ r \in DOMAIN q.doc.rooms \/ q.act = "restore"
RoomKept(d, r) ==
  \/ <<"room", d>> \in doubt
  \/ \E q \in wire : Decides(q, d, r)
  \/ r \in MeantRooms(file, d) <=> r \in wish.room[d]
StarKept(d) ==
  \/ <<"star", d>> \in doubt
  \/ \E q \in wire : q.at = "sent" /\ <<"star", d>> \in q.subj
  \/ d \in Meant(file.favs) <=> d \in wish.star
Kept == \A d \in Device : StarKept(d) /\ \A r \in RoomId : RoomKept(d, r)

\* A device that was migrated at the address it was filed under, and not written
\* by its address since, is under its stable id in the file and every request.
Carried ==
  \A d \in migrated \ carried :
    /\ Ip(d) \notin Listed(file)
    /\ \A q \in wire : Ip(d) \notin Listed(q.doc)

Agreed == Apart /\ Means /\ Kept
SettleInv == Carried /\ (~muddled => Agreed)

\* A step leaves place p of the file alone, as far as devices go that are not
\* in doubt.
PlaceSame(p) ==
  IF p = "favs"
  THEN \A d \in Device :
         \/ <<"star", d>> \in doubt'
         \/ d \in Meant(file'.favs) <=> d \in Meant(file.favs)
  ELSE /\ p \in DOMAIN file.rooms => p \in DOMAIN file'.rooms
       /\ \A d \in Device :
            \/ <<"room", d>> \in doubt'
            \/ p \in MeantRooms(file', d) <=> p \in MeantRooms(file, d)

\* The places of the file a request is about to change.
Targets(q) == IF q.act \in {"update", "delete"} THEN DOMAIN q.doc.rooms
              ELSE IF q.act = "star" THEN {"favs"}
              ELSE IF q.act = "restore" THEN Place ELSE {}

\* What a step leaves of the wishes when it is about touch and subj.
WishFor(touch, subj) ==
  /\ \A d \in Device, r \in RoomId :
       /\ r \notin touch /\ <<"room", d>> \notin subj
            => (r \in wish'.room[d] <=> r \in wish.room[d])
       /\ r \notin touch /\ r \in wish'.room[d] => r \in wish.room[d]
  /\ \A d \in Device : <<"star", d>> \notin subj
                         => (d \in wish'.star <=> d \in wish.star)
  /\ touch = {} => wish' = wish

LEMMA SameFileSame == ASSUME file' = file, NEW p PROVE PlaceSame(p)
  BY DEF PlaceSame

LEMMA SubjectIs ==
  ASSUME NEW d \in Device, NEW e \in Device
  PROVE  /\ <<"room", d>> \in Subject /\ <<"star", d>> \in Subject
         /\ <<"room", d>> # <<"star", e>>
         /\ <<"room", d>> = <<"room", e>> <=> d = e
         /\ <<"star", d>> = <<"star", e>> <=> d = e
  BY DEF Subject

LEMMA RoomPlace == RoomId \subseteq Place /\ "favs" \in Place
  BY DEF Place

LEMMA TargetsTouched ==
  ASSUME NEW q, MeansWell(q)
  PROVE  Targets(q) \subseteq q.touch
<1>1. CASE q.act = "update" /\ UpdateMeans(q)
  BY <1>1 DEF UpdateMeans, Targets
<1>2. CASE q.act = "delete" /\ DeleteMeans(q)
  BY <1>2 DEF DeleteMeans, Targets
<1>3. CASE q.act = "star" /\ StarMeans(q)
  BY <1>3 DEF StarMeans, Targets
<1>4. CASE q.act = "restore" /\ RestoreMeans(q)
  BY <1>4 DEF RestoreMeans, Targets
<1>5. CASE q.act \in {"create", "rename"} /\ q.subj = {}
  BY <1>5 DEF Targets
<1> QED BY <1>1, <1>2, <1>3, <1>4, <1>5 DEF MeansWell

\* A request means what it meant if the file stays as it is where the request
\* is about to change it, and the wishes where it is about them.
LEMMA StillMeans ==
  ASSUME TypeInv, NEW q \in wire, MeansWell(q),
         \A p \in Targets(q) : PlaceSame(p),
         NEW touch \in SUBSET Place, NEW subj \in SUBSET Subject,
         WishFor(touch, subj), q.touch \cap touch = {},
         q.subj \cap subj = {}, doubt \subseteq doubt'
  PROVE  MeansWell(q)'
<1>0. Targets(q) \cap touch = {}
  BY TargetsTouched
<1>1. CASE q.act = "update" /\ UpdateMeans(q)
  <2>1. PICK d \in Device, r \in DOMAIN file.rooms :
          /\ DOMAIN q.doc.rooms = {r} /\ r \in q.touch
          /\ q.subj = {<<"room", d>>}
          /\ \A e \in Device \ {d} :
               \/ <<"room", e>> \in doubt
               \/ r \in MeantRooms(q.doc, e) <=> r \in MeantRooms(file, e)
          /\ r \in MeantRooms(q.doc, d) <=> r \in wish.room[d]
    BY <1>1 DEF UpdateMeans
  <2>2. r \in RoomId /\ r # "favs"
    BY FavsAssumption, DocOut DEF TypeInv, FileOK
  <2>3. PlaceSame(r) /\ r \notin touch /\ <<"room", d>> \notin subj
    BY <1>1, <2>1, <1>0 DEF Targets
  <2>4. r \in DOMAIN file'.rooms
        /\ \A e \in Device :
             \/ <<"room", e>> \in doubt'
             \/ r \in MeantRooms(file', e) <=> r \in MeantRooms(file, e)
    BY <2>2, <2>3 DEF PlaceSame
  <2>5. r \in wish'.room[d] <=> r \in wish.room[d]
    BY <2>2, <2>3 DEF WishFor
  <2> HIDE DEF MeantRooms
  <2>6. UpdateMeans(q)'
    BY <2>1, <2>4, <2>5 DEF UpdateMeans
  <2> QED BY <1>1, <2>6 DEF MeansWell
<1>2. CASE q.act = "delete" /\ DeleteMeans(q)
  <2>1. PICK r \in RoomId :
          /\ DOMAIN q.doc.rooms = {r} /\ r \in q.touch
          /\ \A d \in Device : <<"star", d>> \notin q.subj
                               /\ r \notin wish.room[d]
    BY <1>2 DEF DeleteMeans
  <2>2. \A d \in Device : r \notin wish'.room[d]
    BY <2>1 DEF WishFor
  <2>3. DeleteMeans(q)'
    BY <2>1, <2>2 DEF DeleteMeans
  <2> QED BY <1>2, <2>3 DEF MeansWell
<1>3. CASE q.act = "star" /\ StarMeans(q)
  <2>1. PICK d \in Device :
          /\ "favs" \in q.touch /\ q.subj = {<<"star", d>>}
          /\ \A e \in Device \ {d} :
               \/ <<"star", e>> \in doubt
               \/ e \in Meant(q.doc.favs) <=> e \in Meant(file.favs)
          /\ d \in Meant(q.doc.favs) <=> d \in wish.star
    BY <1>3 DEF StarMeans
  <2>2. \A e \in Device :
          \/ <<"star", e>> \in doubt'
          \/ e \in Meant(file'.favs) <=> e \in Meant(file.favs)
    BY <1>3 DEF Targets, PlaceSame
  <2>3. d \in wish'.star <=> d \in wish.star
    BY <2>1 DEF WishFor
  <2> HIDE DEF Meant
  <2>4. StarMeans(q)'
    BY <2>1, <2>2, <2>3 DEF StarMeans
  <2> QED BY <1>3, <2>4 DEF MeansWell
<1>4. CASE q.act = "restore" /\ RestoreMeans(q)
  <2>1. touch = {}
    BY <1>4 DEF RestoreMeans
  <2>2. RestoreMeans(q)'
    BY <1>4, <2>1 DEF RestoreMeans, WishFor
  <2> QED BY <1>4, <2>2 DEF MeansWell
<1>5. CASE q.act \in {"create", "rename"} /\ q.subj = {}
  BY <1>5 DEF MeansWell
<1> QED BY <1>1, <1>2, <1>3, <1>4, <1>5 DEF MeansWell

\* What is kept stays kept where neither file nor wishes move.
LEMMA StillKept ==
  ASSUME file' = file, doubt \subseteq doubt', wire \subseteq wire',
         NEW d \in Device
  PROVE  /\ StarKept(d) /\ (d \in wish'.star <=> d \in wish.star)
              => StarKept(d)'
         /\ \A r \in RoomId :
              RoomKept(d, r) /\ (r \in wish'.room[d] <=> r \in wish.room[d])
                => RoomKept(d, r)'
<1>1. ASSUME StarKept(d), d \in wish'.star <=> d \in wish.star
      PROVE  StarKept(d)'
  <2> HIDE DEF Meant
  <2> QED BY <1>1 DEF StarKept
<1>2. ASSUME NEW r \in RoomId, RoomKept(d, r),
             r \in wish'.room[d] <=> r \in wish.room[d]
      PROVE  RoomKept(d, r)'
  <2>1. ASSUME NEW q \in wire, Decides(q, d, r) PROVE Decides(q, d, r)'
    BY <2>1 DEF Decides
  <2> HIDE DEF MeantRooms, Decides
  <2> QED BY <1>2, <2>1 DEF RoomKept
<1> QED BY <1>1, <1>2

-----------------------------------------------------------------------------
(* Edits                                                                   *)

\* The requests an edit sends.
Sends(msgs, subj, touch) ==
  /\ wire \subseteq wire'
  /\ \A q \in wire' \ wire :
       \E m \in msgs : /\ q.act = m[1] /\ q.doc = m[2] /\ q.at = "sent"
                       /\ q.subj = subj /\ q.touch = touch
  /\ \A m \in msgs :
       \E q \in wire' : /\ q.act = m[1] /\ q.doc = m[2] /\ q.at = "sent"
                        /\ q.subj = subj /\ q.touch = touch
  /\ \A q, p \in wire' \ wire : q.act = p.act /\ q.doc = p.doc => q = p

LEMMA EditSends ==
  ASSUME NEW t, NEW of, NEW new, NEW msgs, NEW subj, NEW touch, NEW sound,
         Edit(t, of, new, msgs, subj, touch, sound), ~muddled'
  PROVE  /\ Sends(msgs, subj, touch)
         /\ ~muddled /\ sound /\ ~Busy(touch)
         /\ \A s \in subj : ~Awaited(s)
         /\ load[t].left = {}
         /\ UNCHANGED <<file, doubt>>
<1> DEFINE req(m) == [op |-> ops + 1, tab |-> t, act |-> m[1], doc |-> m[2],
                      subj |-> subj, touch |-> touch, at |-> "sent"]
<1>1. wire' = wire \cup {req(m) : m \in msgs}
  BY DEF Edit
<1>2. \A m \in msgs : /\ req(m).act = m[1] /\ req(m).doc = m[2]
                      /\ req(m).at = "sent"
                      /\ req(m).subj = subj /\ req(m).touch = touch
  OBVIOUS
<1>3. \A m, n \in msgs : req(m).act = req(n).act /\ req(m).doc = req(n).doc
                           => req(m) = req(n)
  OBVIOUS
<1> HIDE DEF req
<1>4. Sends(msgs, subj, touch)
  BY <1>1, <1>2, <1>3 DEF Sends
<1>5. /\ muddled' = (\/ muddled \/ ~sound \/ load[t].left # {}
                     \/ Busy(touch) \/ \E s \in subj : Awaited(s))
  BY Zenon DEF Edit
<1>6. /\ ~muddled /\ sound /\ ~Busy(touch)
      /\ \A s \in subj : ~Awaited(s)
      /\ load[t].left = {}
  BY <1>5, Zenon
<1>7. UNCHANGED <<file, doubt>>
  BY DEF Edit, server
<1> QED BY <1>4, <1>6, <1>7

\* The requests of one edit are about different rooms.
OwnRooms(msgs) ==
  \A m, n \in msgs : \/ m = n
                     \/ /\ m[1] = "update" /\ n[1] = "update"
                        /\ DOMAIN m[2].rooms \cap DOMAIN n[2].rooms = {}

LEMMA EditApart ==
  ASSUME Apart, NEW msgs, NEW subj, NEW touch, Sends(msgs, subj, touch),
         ~Busy(touch), \A s \in subj : ~Awaited(s), OwnRooms(msgs)
  PROVE  Apart'
<1>1. ASSUME NEW q \in wire, NEW p \in wire' \ wire
      PROVE  Alone(q, p) /\ Alone(p, q)
  <2>1. p.subj = subj /\ p.touch = touch
    BY DEF Sends
  <2>2. q.touch \cap touch = {}
    BY DEF Busy
  <2>3. q.subj \cap subj = {}
    BY DEF Awaited
  <2> QED BY <2>1, <2>2, <2>3 DEF Alone
<1>2. ASSUME NEW q \in wire' \ wire, NEW p \in wire' \ wire
      PROVE  q = p \/ Siblings(q, p)
  <2>1. PICK m \in msgs : q.act = m[1] /\ q.doc = m[2]
    BY DEF Sends
  <2>2. PICK n \in msgs : p.act = n[1] /\ p.doc = n[2]
    BY DEF Sends
  <2>3. CASE m = n
    BY <2>1, <2>2, <2>3 DEF Sends
  <2>4. CASE m # n
    BY <2>1, <2>2, <2>4 DEF OwnRooms, Siblings
  <2> QED BY <2>3, <2>4
<1>3. \A q, p \in wire : q = p \/ Alone(q, p) \/ Siblings(q, p)
  BY DEF Apart
<1>4. wire \subseteq wire'
  BY DEF Sends
<1> HIDE DEF Alone, Siblings
<1>5. ASSUME NEW q \in wire', NEW p \in wire'
      PROVE  q = p \/ Alone(q, p) \/ Siblings(q, p)
  <2>1. CASE q \in wire /\ p \in wire
    BY <1>3, <2>1
  <2>2. CASE q \in wire /\ p \notin wire
    BY <1>1, <2>2
  <2>3. CASE q \notin wire /\ p \in wire
    BY <1>1, <2>3
  <2>4. CASE q \notin wire /\ p \notin wire
    BY <1>2, <2>4
  <2> QED BY <2>1, <2>2, <2>3, <2>4
<1> QED BY <1>5 DEF Apart, Alone, Siblings

\* An edit whose requests carry what it is meant to do.
LEMMA EditAgrees ==
  ASSUME TypeInv, Agreed, NEW msgs, NEW subj \in SUBSET Subject,
         NEW touch \in SUBSET Place, Sends(msgs, subj, touch),
         ~Busy(touch), \A s \in subj : ~Awaited(s), OwnRooms(msgs),
         UNCHANGED <<file, doubt>>, WishFor(touch, subj),
         \A q \in wire' \ wire : MeansWell(q)',
         Kept'
  PROVE  Agreed'
<1>1. Apart'
  BY EditApart DEF Agreed
<1>2. ASSUME NEW q \in wire, q.at = "sent" PROVE MeansWell(q)'
  <2>1. q.touch \cap touch = {} /\ q.subj \cap subj = {}
    BY DEF Busy, Awaited
  <2>2. MeansWell(q) /\ \A p \in Targets(q) : PlaceSame(p)
    BY <1>2, SameFileSame DEF Agreed, Means
  <2> QED BY <2>1, <2>2, StillMeans
<1> HIDE DEF MeansWell
<1>3. Means'
  BY <1>2 DEF Means
<1> QED BY <1>1, <1>3 DEF Agreed

\* What a tab shows of room r, if it is what the file holds.
LEMMA SameRoomIs ==
  ASSUME TypeInv, NEW t \in Tab, NEW r, SameRoom(t, r)
  PROVE  /\ r \in DOMAIN view[t].rooms /\ r \in DOMAIN file.rooms
         /\ r \in RoomId
         /\ \A d \in Device : r \in MeantRooms(file, d)
                                <=> d \in Meant(view[t].rooms[r])
<1>1. /\ r \in DOMAIN view[t].rooms /\ r \in DOMAIN file.rooms
      /\ view[t].rooms[r] = file.rooms[r]
  BY DEF SameRoom, InView
<1>2. r \in RoomId
  BY <1>1, ViewIn
<1> QED BY <1>1, <1>2 DEF MeantRooms

LEMMA FragmentMeans ==
  ASSUME NEW r \in RoomId, NEW ids \in SUBSET Id, NEW d \in Device
  PROVE  r \in MeantRooms(Fragment(r, ids), d) <=> d \in Meant(ids)
  BY FragmentIn DEF MeantRooms

\* The rooms of a move, after it: the device is in the new one only, and the
\* others are where they were.
LEMMA MovedMeans ==
  ASSUME TypeInv, NEW t \in Tab, NEW d \in Device, NEW current, NEW to,
         to # current, NEW r \in Both(current, to),
         SameRoom(t, r), Ip(d) \notin Moved(t, d, current, to)[r]
  PROVE  /\ d \in Meant(Moved(t, d, current, to)[r])
              <=> r \in {to} \ {NoRoom}
         /\ \A e \in Device \ {d} :
              e \in Meant(Moved(t, d, current, to)[r])
                <=> r \in MeantRooms(file, e)
<1>1. r \in DOMAIN view[t].rooms /\ r \in {current, to} /\ r # NoRoom
  BY SameRoomIs DEF Both
<1>2. Moved(t, d, current, to)[r]
        = IF r = current THEN view[t].rooms[r] \ {d}
          ELSE IF r = to THEN view[t].rooms[r] \cup {d}
          ELSE view[t].rooms[r]
  BY <1>1 DEF Moved
<1>3. d \in Meant(Moved(t, d, current, to)[r])
        <=> d \in Moved(t, d, current, to)[r]
  BY DEF Meant
<1>4. d \in Moved(t, d, current, to)[r] <=> r = to
  BY <1>1, <1>2
<1>5. ASSUME NEW e \in Device \ {d}
      PROVE  e \in Meant(Moved(t, d, current, to)[r])
               <=> r \in MeantRooms(file, e)
  <2>1. e \in Meant(Moved(t, d, current, to)[r])
          <=> e \in Meant(view[t].rooms[r])
    BY <1>1, <1>2, MeantAdd
  <2> QED BY <2>1, SameRoomIs
<1> QED BY <1>1, <1>3, <1>4, <1>5

LEMMA AssignAgrees ==
  ASSUME TypeInv, Agreed, ~muddled', NEW t \in Tab, NEW d \in Device,
         NEW to \in RoomId \cup {NoRoom}, AssignDevice(t, d, to)
  PROVE  Agreed'
<1>1. PICK current :
    /\ IF Here(t, d) = {} THEN current = NoRoom ELSE current \in Here(t, d)
    /\ to \in DOMAIN view[t].rooms \cup {NoRoom} /\ to # current
    /\ Edit(t, "rooms",
            [view[t] EXCEPT !.rooms = Moved(t, d, current, to)],
            {<<"update", Fragment(r, Moved(t, d, current, to)[r])>> :
               r \in Changed(t, d, current, to)},
            {<<"room", d>>}, Both(current, to),
            /\ \A r \in Both(current, to) :
                 SameRoom(t, r) /\ Ip(d) \notin Moved(t, d, current, to)[r]
            /\ MeantRooms(file, d) \subseteq Both(current, to))
    /\ wish' = [wish EXCEPT !.room[d] = {to} \ {NoRoom}]
  BY AssignIs
<1> DEFINE new == [view[t] EXCEPT !.rooms = Moved(t, d, current, to)]
           after(r) == Moved(t, d, current, to)[r]
           msgs == {<<"update", Fragment(r, after(r))>> :
                      r \in Changed(t, d, current, to)}
           touch == Both(current, to)
           subj == {<<"room", d>>}
           sound == /\ \A r \in touch : SameRoom(t, r) /\ Ip(d) \notin after(r)
                    /\ MeantRooms(file, d) \subseteq touch
<1>2. Edit(t, "rooms", new, msgs, subj, touch, sound)
  BY <1>1
<1>3. /\ Sends(msgs, subj, touch) /\ ~Busy(touch) /\ sound
      /\ \A s \in subj : ~Awaited(s)
      /\ UNCHANGED <<file, doubt>>
  <2> HIDE DEF new, msgs, subj, touch, sound
  <2> QED BY <1>2, EditSends
<1>4. /\ Changed(t, d, current, to) \in SUBSET RoomId
      /\ touch \in SUBSET RoomId
  BY <1>1, MoveChanges
<1>5. \A r \in Changed(t, d, current, to) : r \in touch
  <2>1. \A r \in Changed(t, d, current, to) :
          r \in DOMAIN view[t].rooms /\ after(r) # view[t].rooms[r]
    BY DEF Changed
  <2>2. ASSUME NEW r \in Changed(t, d, current, to)
        PROVE  r \in {current, to}
    <3>1. r \in DOMAIN view[t].rooms /\ after(r) # view[t].rooms[r]
      BY <2>1
    <3> QED BY <3>1 DEF Moved
  <2>3. \A r \in Changed(t, d, current, to) : r # NoRoom
    BY <1>4, NoRoomAssumption
  <2> QED BY <2>2, <2>3 DEF Both
<1>6. \A r \in touch : r \in RoomId /\ r \in DOMAIN file.rooms
                       /\ after(r) \in SUBSET Id
  BY <1>3, SameRoomIs, MovedIn
<1>7. \A r \in touch :
        /\ d \in Meant(after(r)) <=> r \in {to} \ {NoRoom}
        /\ \A e \in Device \ {d} :
             e \in Meant(after(r)) <=> r \in MeantRooms(file, e)
  BY <1>1, <1>3, MovedMeans
<1>8. \A r \in touch :
        /\ DOMAIN Fragment(r, after(r)).rooms = {r}
        /\ \A e \in Device : r \in MeantRooms(Fragment(r, after(r)), e)
                               <=> e \in Meant(after(r))
  BY <1>6, FragmentIn, FragmentMeans
<1>9. /\ wish'.room[d] = {to} \ {NoRoom}
      /\ \A e \in Device \ {d} : wish'.room[e] = wish.room[e]
      /\ wish'.star = wish.star
  BY <1>1 DEF TypeInv, HistoryOK, WishOK
<1>10. to = NoRoom \/ to \in touch
  BY DEF Both
<1>11. WishFor(touch, subj)
  <2>1. touch # {}
    BY <1>1, <1>5, MoveChanges
  <2>2. \A e \in Device : <<"room", e>> \notin subj => e # d
    OBVIOUS
  <2> HIDE DEF touch, subj
  <2> QED BY <1>9, <1>10, <2>1, <2>2 DEF WishFor
<1>12. subj \in SUBSET Subject /\ touch \in SUBSET Place
  BY <1>4, SubjectIs, RoomPlace
<1>13. OwnRooms(msgs)
  <2>1. ASSUME NEW r \in Changed(t, d, current, to),
               NEW x \in Changed(t, d, current, to)
        PROVE  \/ r = x
               \/ DOMAIN Fragment(r, after(r)).rooms
                    \cap DOMAIN Fragment(x, after(x)).rooms = {}
    BY <1>5, <1>8
  <2> HIDE DEF after
  <2> QED BY <2>1 DEF OwnRooms
<1>14. ASSUME NEW q \in wire' \ wire
       PROVE  MeansWell(q)'
  <2>1. PICK r \in Changed(t, d, current, to) :
          /\ q.act = "update" /\ q.doc = Fragment(r, after(r))
          /\ q.subj = subj /\ q.touch = touch
    <3>1. PICK m \in msgs : /\ q.act = m[1] /\ q.doc = m[2]
                            /\ q.subj = subj /\ q.touch = touch
      <4> HIDE DEF msgs, subj, touch
      <4> QED BY <1>3 DEF Sends
    <3> HIDE DEF subj, touch, after
    <3> QED BY <3>1
  <2>2. r \in touch /\ r \in DOMAIN file.rooms
    BY <1>5, <1>6
  <2>3. /\ DOMAIN q.doc.rooms = {r} /\ r \in q.touch
        /\ q.subj = {<<"room", d>>}
        /\ \A e \in Device \ {d} :
             r \in MeantRooms(q.doc, e) <=> r \in MeantRooms(file, e)
        /\ r \in MeantRooms(q.doc, d) <=> r \in wish'.room[d]
    <3> HIDE DEF touch, after
    <3> QED BY <1>7, <1>8, <1>9, <2>1, <2>2
  <2>4. file' = file
    BY <1>3
  <2> HIDE DEF MeantRooms, after, touch, subj
  <2>5. UpdateMeans(q)'
    BY <2>2, <2>3, <2>4 DEF UpdateMeans
  <2> QED BY <2>1, <2>5 DEF MeansWell
<1>15. ASSUME NEW e \in Device, NEW r \in RoomId PROVE RoomKept(e, r)'
  <2>0. RoomKept(e, r) /\ wire \subseteq wire'
    BY <1>3 DEF Agreed, Kept, Sends
  <2>1. CASE e # d
    BY <1>3, <1>9, <2>0, <2>1, StillKept
  <2>2. CASE e = d /\ r \in Changed(t, d, current, to)
    <3>1. <<"update", Fragment(r, after(r))>> \in msgs
      BY <2>2
    <3>2. PICK q \in wire' :
            /\ q.at = "sent" /\ q.subj = subj
            /\ q.doc = Fragment(r, after(r))
      <4> HIDE DEF msgs, subj, touch, after
      <4> QED BY <1>3, <3>1 DEF Sends
    <3>3. r \in DOMAIN q.doc.rooms
      BY <1>5, <1>8, <2>2, <3>2
    <3>4. Decides(q, e, r)'
      BY <2>2, <3>2, <3>3 DEF Decides
    <3> QED BY <3>4 DEF RoomKept
  <2>3. CASE e = d /\ r \in touch /\ r \notin Changed(t, d, current, to)
    <3>1. r \in DOMAIN view[t].rooms /\ SameRoom(t, r)
      BY <1>3, <2>3, SameRoomIs
    <3>2. after(r) = view[t].rooms[r]
      BY <2>3, <3>1 DEF Changed
    <3>3. r \in MeantRooms(file, d) <=> d \in Meant(after(r))
      BY <3>1, <3>2, SameRoomIs
    <3>4. r \in MeantRooms(file, d) <=> r \in wish'.room[d]
      BY <1>7, <1>9, <2>3, <3>3
    <3> HIDE DEF MeantRooms
    <3> QED BY <1>3, <2>3, <3>4 DEF RoomKept
  <2>4. CASE e = d /\ r \notin touch
    <3>1. r \notin MeantRooms(file, d) /\ r \notin wish'.room[d]
      BY <1>3, <1>9, <1>10, <2>4
    <3> HIDE DEF MeantRooms
    <3> QED BY <1>3, <2>4, <3>1 DEF RoomKept
  <2> QED BY <2>1, <2>2, <2>3, <2>4
<1>16. ASSUME NEW e \in Device PROVE StarKept(e)'
  <2>0. StarKept(e) /\ wire \subseteq wire'
    BY <1>3 DEF Agreed, Kept, Sends
  <2> QED BY <1>3, <1>9, <2>0, StillKept
<1>17. Kept'
  BY <1>15, <1>16 DEF Kept
<1> HIDE DEF msgs, subj, touch, sound
<1> QED BY <1>3, <1>11, <1>12, <1>13, <1>14, <1>17, EditAgrees

LEMMA DeleteAgrees ==
  ASSUME TypeInv, Agreed, ~muddled', NEW t \in Tab, NEW r \in RoomId,
         DeleteRoom(t, r)
  PROVE  Agreed'
<1> DEFINE new == [view[t] EXCEPT !.rooms =
                     [x \in DOMAIN view[t].rooms \ {r} |-> view[t].rooms[x]]]
           msgs == {<<"delete", Fragment(r, {})>>}
           subj == {<<"room", d>> : d \in Meant(view[t].rooms[r])}
           sound == SameRoom(t, r)
<1>1. Edit(t, "rooms", new, msgs, subj, {r}, sound)
  BY DEF DeleteRoom
<1>2. /\ Sends(msgs, subj, {r}) /\ ~Busy({r}) /\ sound
      /\ \A s \in subj : ~Awaited(s)
      /\ UNCHANGED <<file, doubt>>
  <2> HIDE DEF new, msgs, subj, sound
  <2> QED BY <1>1, EditSends
<1>3. /\ \A d \in Device, x \in RoomId :
           x \in wish'.room[d] <=> x \in wish.room[d] /\ x # r
      /\ wish'.star = wish.star
  BY DEF DeleteRoom, TypeInv, HistoryOK, WishOK
<1>4. /\ subj \in SUBSET Subject /\ {r} \in SUBSET Place
      /\ \A d \in Device : /\ <<"room", d>> \in subj
                                <=> r \in MeantRooms(file, d)
                           /\ <<"star", d>> \notin subj
  <2>1. Meant(view[t].rooms[r]) \subseteq Device
    BY DEF Meant
  <2>2. \A d \in Device : <<"room", d>> \in subj
                            <=> d \in Meant(view[t].rooms[r])
    OBVIOUS
  <2>3. \A d \in Device : <<"star", d>> \notin subj
    OBVIOUS
  <2>4. subj \in SUBSET Subject
    BY <2>1, SubjectIs
  <2> HIDE DEF subj
  <2> QED BY <1>2, <2>2, <2>3, <2>4, SameRoomIs, RoomPlace
<1>5. WishFor({r}, subj)
  <2> HIDE DEF subj
  <2> QED BY <1>3 DEF WishFor
<1>6. OwnRooms(msgs)
  BY DEF OwnRooms
<1>7. ASSUME NEW q \in wire', q.act = "delete", q.doc = Fragment(r, {}),
             q.subj = subj, q.touch = {r}
      PROVE  DeleteMeans(q)'
  <2>1. /\ DOMAIN q.doc.rooms = {r} /\ r \in q.touch
        /\ \A d \in Device : <<"star", d>> \notin q.subj
                             /\ r \notin wish'.room[d]
    <3>1. Fragment(r, {}).rooms = [x \in {r} |-> {}]
      BY DEF Fragment, EmptyDoc
    <3>2. DOMAIN q.doc.rooms = {r}
      BY <1>7, <3>1
    <3>3. \A d \in Device : r \notin wish'.room[d]
      BY <1>3
    <3> HIDE DEF subj
    <3> QED BY <1>4, <1>7, <3>2, <3>3
  <2> HIDE DEF subj
  <2> QED BY <2>1 DEF DeleteMeans
<1>8. PICK n \in wire' : /\ n.at = "sent" /\ n.doc = Fragment(r, {})
                         /\ n.subj = subj
  <2>1. <<"delete", Fragment(r, {})>> \in msgs
    OBVIOUS
  <2> HIDE DEF msgs, subj
  <2> QED BY <1>2, <2>1 DEF Sends
<1>9. ASSUME NEW q \in wire' \ wire PROVE MeansWell(q)'
  <2>1. PICK m \in msgs : /\ q.act = m[1] /\ q.doc = m[2]
                          /\ q.subj = subj /\ q.touch = {r}
    <3> HIDE DEF msgs, subj
    <3> QED BY <1>2 DEF Sends
  <2>2. q.act = "delete" /\ q.doc = Fragment(r, {})
    BY <2>1
  <2> HIDE DEF subj, msgs
  <2>3. DeleteMeans(q)'
    BY <1>7, <2>1, <2>2
  <2> QED BY <2>2, <2>3 DEF MeansWell
<1> HIDE DEF msgs, subj, sound
<1>10. ASSUME NEW d \in Device, NEW x \in RoomId PROVE RoomKept(d, x)'
  <2>0. RoomKept(d, x) /\ wire \subseteq wire'
    BY <1>2 DEF Agreed, Kept, Sends
  <2>1. CASE x # r
    BY <1>2, <1>3, <2>0, <2>1, StillKept
  <2>2. CASE x = r /\ r \in MeantRooms(file, d)
    <3>1. r \in DOMAIN n.doc.rooms
      BY <1>8, FragmentIn
    <3>2. Decides(n, d, r)'
      BY <1>4, <1>8, <2>2, <3>1 DEF Decides
    <3> QED BY <2>2, <3>2 DEF RoomKept
  <2>3. CASE x = r /\ r \notin MeantRooms(file, d)
    <3>1. r \notin wish'.room[d]
      BY <1>3
    <3> HIDE DEF MeantRooms
    <3> QED BY <1>2, <2>3, <3>1 DEF RoomKept
  <2> QED BY <2>1, <2>2, <2>3
<1>11. ASSUME NEW d \in Device PROVE StarKept(d)'
  <2>0. StarKept(d) /\ wire \subseteq wire'
    BY <1>2 DEF Agreed, Kept, Sends
  <2> QED BY <1>2, <1>3, <2>0, StillKept
<1>12. Kept'
  BY <1>10, <1>11 DEF Kept
<1> QED BY <1>2, <1>4, <1>5, <1>6, <1>9, <1>12, EditAgrees

\* An edit that is about no device.
LEMMA IdleAgrees ==
  ASSUME TypeInv, Agreed, ~muddled', NEW t \in Tab, NEW new, NEW sound,
         NEW act \in {"rename", "create"}, NEW doc,
         NEW touch \in SUBSET Place,
         Edit(t, "rooms", new, {<<act, doc>>}, {}, touch, sound),
         wish' = wish
  PROVE  Agreed'
<1> DEFINE msgs == {<<act, doc>>}
           subj == {}
<1>1. Edit(t, "rooms", new, msgs, subj, touch, sound)
  OBVIOUS
<1>2. OwnRooms(msgs) /\ subj \in SUBSET Subject
  BY DEF OwnRooms
<1>3. \A m \in msgs : m[1] \in {"rename", "create"}
  OBVIOUS
<1> HIDE DEF msgs
<1>4. /\ Sends(msgs, subj, touch) /\ ~Busy(touch)
      /\ \A s \in subj : ~Awaited(s)
      /\ UNCHANGED <<file, doubt>>
  BY <1>1, EditSends
<1>5. WishFor(touch, subj)
  BY DEF WishFor
<1>6. ASSUME NEW q \in wire' \ wire PROVE MeansWell(q)'
  <2>1. q.act \in {"create", "rename"} /\ q.subj = {}
    BY <1>3, <1>4 DEF Sends
  <2> QED BY <2>1 DEF MeansWell
<1>7. Kept'
  <2>1. ASSUME NEW d \in Device
        PROVE  StarKept(d)' /\ \A r \in RoomId : RoomKept(d, r)'
    <3>1. StarKept(d) /\ \A r \in RoomId : RoomKept(d, r)
      BY DEF Agreed, Kept
    <3>2. wire \subseteq wire'
      BY <1>4 DEF Sends
    <3> HIDE DEF StarKept, RoomKept
    <3> QED BY <1>4, <3>1, <3>2, StillKept
  <2> QED BY <2>1 DEF Kept
<1> HIDE DEF subj
<1> QED BY <1>2, <1>4, <1>5, <1>6, <1>7, EditAgrees

LEMMA RenameAgrees ==
  ASSUME TypeInv, Agreed, ~muddled', NEW t \in Tab, NEW r \in RoomId,
         RenameRoom(t, r)
  PROVE  Agreed'
<1>1. Edit(t, "rooms", view[t], {<<"rename", Fragment(r, {})>>}, {}, {r},
           SameRoom(t, r)) /\ wish' = wish
  BY DEF RenameRoom
<1>2. {r} \in SUBSET Place
  BY RoomPlace
<1> QED BY <1>1, <1>2, IdleAgrees

LEMMA CreateAgrees ==
  ASSUME TypeInv, Agreed, ~muddled', NEW t \in Tab, CreateRoom(t)
  PROVE  Agreed'
<1>1. Edit(t, "rooms", view[t], {<<"create", EmptyDoc>>}, {}, {}, TRUE)
      /\ wish' = wish
  BY DEF CreateRoom
<1>2. {} \in SUBSET Place
  OBVIOUS
<1> QED BY <1>1, <1>2, IdleAgrees

LEMMA ToggleAgrees ==
  ASSUME TypeInv, Agreed, ~muddled', NEW t \in Tab, NEW d \in Device,
         ToggleFavorite(t, d)
  PROVE  Agreed'
<1> DEFINE new == [view[t] EXCEPT !.favs = Stars(t, d)]
           doc == [EmptyDoc EXCEPT !.favs = Stars(t, d)]
           msgs == {<<"star", doc>>}
           subj == {<<"star", d>>}
           touch == {"favs"}
           sound == view[t].favs = file.favs /\ Ip(d) \notin Stars(t, d)
<1>1. Edit(t, "favs", new, msgs, subj, touch, sound)
  BY DEF ToggleFavorite, Stars
<1>2. /\ Sends(msgs, subj, touch) /\ ~Busy(touch) /\ sound
      /\ \A s \in subj : ~Awaited(s)
      /\ UNCHANGED <<file, doubt>>
  <2> HIDE DEF new, msgs, subj, touch, sound
  <2> QED BY <1>1, EditSends
<1>3. doc.favs = Stars(t, d)
  BY EmptyDocIn, ViewIn, DeviceIds, FavsReplaced DEF Stars
<1>4. /\ wish'.room = wish.room
      /\ \A e \in Device \ {d} : e \in wish'.star <=> e \in wish.star
      /\ d \in wish'.star <=> d \notin view[t].favs
  BY DEF ToggleFavorite, TypeInv, HistoryOK, WishOK
<1>5. /\ \A e \in Device \ {d} :
           e \in Meant(Stars(t, d)) <=> e \in Meant(file.favs)
      /\ d \in Meant(Stars(t, d)) <=> d \in wish'.star
  <2>1. \A e \in Device \ {d} :
          e \in Meant(Stars(t, d)) <=> e \in Meant(file.favs)
    BY <1>2, MeantAdd DEF Stars
  <2>2. d \in Meant(Stars(t, d)) <=> d \in Stars(t, d)
    BY <1>2 DEF Meant
  <2>3. d \in Stars(t, d) <=> d \notin view[t].favs
    BY DEF Stars
  <2> QED BY <1>4, <2>1, <2>2, <2>3
<1>6. subj \in SUBSET Subject /\ touch \in SUBSET Place
  BY SubjectIs, RoomPlace
<1>7. WishFor(touch, subj)
  BY <1>4 DEF WishFor
<1>8. OwnRooms(msgs)
  BY DEF OwnRooms
<1>9. ASSUME NEW q \in wire' \ wire PROVE MeansWell(q)'
  <2>1. PICK m \in msgs : /\ q.act = m[1] /\ q.doc = m[2]
                          /\ q.subj = subj /\ q.touch = touch
    <3> HIDE DEF msgs, subj, touch
    <3> QED BY <1>2 DEF Sends
  <2>2. q.act = "star" /\ q.doc.favs = Stars(t, d)
    <3>1. m[1] = "star" /\ m[2] = doc
      OBVIOUS
    <3> HIDE DEF doc, msgs
    <3> QED BY <1>3, <2>1, <3>1
  <2>3. /\ "favs" \in q.touch /\ q.subj = {<<"star", d>>}
        /\ \A e \in Device \ {d} :
             e \in Meant(q.doc.favs) <=> e \in Meant(file'.favs)
        /\ d \in Meant(q.doc.favs) <=> d \in wish'.star
    BY <1>2, <1>5, <2>1, <2>2
  <2> HIDE DEF Meant, subj, touch, msgs
  <2>4. StarMeans(q)'
    BY <2>3 DEF StarMeans
  <2> QED BY <2>2, <2>4 DEF MeansWell
<1>10. PICK n \in wire' : n.at = "sent" /\ n.subj = subj
  <2>1. <<"star", doc>> \in msgs
    OBVIOUS
  <2> HIDE DEF msgs, subj, touch, doc
  <2> QED BY <1>2, <2>1 DEF Sends
<1>11. ASSUME NEW e \in Device
       PROVE  StarKept(e)' /\ \A r \in RoomId : RoomKept(e, r)'
  <2>0. /\ StarKept(e) /\ \A r \in RoomId : RoomKept(e, r)
        /\ wire \subseteq wire'
    BY <1>2 DEF Agreed, Kept, Sends
  <2>1. \A r \in RoomId : RoomKept(e, r)'
    BY <1>2, <1>4, <2>0, StillKept
  <2>2. CASE e # d
    BY <1>2, <1>4, <2>0, <2>1, <2>2, StillKept
  <2>3. CASE e = d
    <3>1. StarKept(e)'
      BY <1>10, <2>3 DEF StarKept
    <3> QED BY <2>1, <3>1
  <2> QED BY <2>2, <2>3
<1>12. Kept'
  BY <1>11 DEF Kept
<1> HIDE DEF msgs, subj, touch, sound
<1> QED BY <1>2, <1>6, <1>7, <1>8, <1>9, <1>12, EditAgrees

LEMMA ConfirmAgrees ==
  ASSUME TypeInv, ~muddled', NEW t \in Tab, ConfirmRestore(t)
  PROVE  Agreed'
<1>1. PICK n : /\ wire' = {n} /\ n.act = "restore" /\ n.at = "sent"
               /\ n.subj = Subject /\ n.touch = Place /\ n.doc = backup
  <2> DEFINE req == [op |-> ops + 1, tab |-> t, act |-> "restore",
                     doc |-> backup, subj |-> Subject, touch |-> Place,
                     at |-> "sent"]
  <2>1. muddled' = (muddled \/ wire # {})
    BY Zenon DEF ConfirmRestore
  <2>2. wire' = {req}
    BY <2>1 DEF ConfirmRestore
  <2>3. /\ req.act = "restore" /\ req.at = "sent" /\ req.subj = Subject
        /\ req.touch = Place /\ req.doc = backup
    OBVIOUS
  <2> HIDE DEF req
  <2> QED BY <2>2, <2>3
<1>2. wish' = WishOf(backup)
  BY DEF ConfirmRestore
<1>3. RestoreMeans(n)'
  BY <1>1, <1>2 DEF RestoreMeans
<1>4. Means'
  BY <1>1, <1>3 DEF Means, MeansWell
<1>5. Apart'
  BY <1>1 DEF Apart
<1>6. Kept'
  <2>1. ASSUME NEW d \in Device
        PROVE  StarKept(d)' /\ \A r \in RoomId : RoomKept(d, r)'
    <3>1. n \in wire' /\ n.at = "sent" /\ n.act = "restore"
          /\ <<"room", d>> \in n.subj /\ <<"star", d>> \in n.subj
      BY <1>1, SubjectIs
    <3>2. StarKept(d)'
      BY <3>1 DEF StarKept
    <3>3. ASSUME NEW r \in RoomId PROVE RoomKept(d, r)'
      <4>1. Decides(n, d, r)'
        BY <3>1 DEF Decides
      <4> QED BY <3>1, <4>1 DEF RoomKept
    <3> QED BY <3>2, <3>3
  <2> QED BY <2>1 DEF Kept
<1> QED BY <1>4, <1>5, <1>6 DEF Agreed

-----------------------------------------------------------------------------
(* Answers                                                                 *)

\* The file did not get what request q asks for, which a fault excuses ...
Unwritten(q) == file' = file /\ doubt' = doubt \cup q.subj

\* ... or it did: where q is about, the file is as the user wants or, of the
\* devices q is not about, as it was; elsewhere it is as it was.  A device in
\* doubt is anywhere.
Written(q) ==
  /\ doubt \subseteq doubt'
  /\ \A p \in Place \ Targets(q) : PlaceSame(p)
  /\ \A d \in Device :
       /\ \A r \in RoomId \cap Targets(q) :
            \/ <<"room", d>> \in doubt
            \/ r \in MeantRooms(file', d) <=> r \in wish.room[d]
            \/ /\ <<"room", d>> \notin q.subj
               /\ r \in MeantRooms(file', d) <=> r \in MeantRooms(file, d)
       /\ "favs" \in Targets(q) =>
            \/ <<"star", d>> \in doubt
            \/ d \in Meant(file'.favs) <=> d \in wish.star
            \/ /\ <<"star", d>> \notin q.subj
               /\ d \in Meant(file'.favs) <=> d \in Meant(file.favs)

\* Request q becomes its answer n.
Becomes(q, n) ==
  /\ wire' = (wire \ {q}) \cup {n} /\ n.at # "sent"
  /\ n.act = q.act /\ n.touch = q.touch /\ n.subj = q.subj
  /\ q.act = "update" => n.doc = q.doc

\* What a request decides is what it is about to change.
LEMMA DecidesTargets ==
  ASSUME NEW q, MeansWell(q), NEW d \in Device
  PROVE  /\ \A r \in RoomId : Decides(q, d, r) => r \in Targets(q)
         /\ <<"star", d>> \in q.subj => "favs" \in Targets(q)
<1>1. CASE q.act = "update" /\ UpdateMeans(q)
  BY <1>1, SubjectIs DEF UpdateMeans, Decides, Targets
<1>2. CASE q.act = "delete" /\ DeleteMeans(q)
  BY <1>2 DEF DeleteMeans, Decides, Targets
<1>3. CASE q.act = "star" /\ StarMeans(q)
  BY <1>3, SubjectIs DEF StarMeans, Decides, Targets
<1>4. CASE q.act = "restore" /\ RestoreMeans(q)
  BY <1>4, RoomPlace DEF Targets
<1>5. CASE q.act \in {"create", "rename"} /\ q.subj = {}
  BY <1>5 DEF Decides
<1> QED BY <1>1, <1>2, <1>3, <1>4, <1>5 DEF MeansWell

LEMMA TargetsApart ==
  ASSUME Apart, NEW q \in wire, NEW p \in wire, q # p,
         MeansWell(q), MeansWell(p)
  PROVE  Targets(q) \cap Targets(p) = {}
<1>1. CASE Alone(q, p)
  BY <1>1, TargetsTouched DEF Alone
<1>2. CASE Siblings(q, p)
  BY <1>2 DEF Siblings, Targets
<1> QED BY <1>1, <1>2 DEF Apart

\* A request that means well is answered, and all the others still do.
LEMMA AnswerAgrees ==
  ASSUME TypeInv, Agreed, NEW q \in wire, NEW n, Becomes(q, n),
         wish' = wish,
         Unwritten(q) \/ (q.at = "sent" /\ Written(q))
  PROVE  Agreed'
<1>1. Apart'
  <2>1. ASSUME NEW p \in wire \ {q}
        PROVE  /\ Alone(n, p) \/ Siblings(n, p)
               /\ Alone(p, n) \/ Siblings(p, n)
    <3>1. /\ Alone(q, p) \/ Siblings(q, p)
          /\ Alone(p, q) \/ Siblings(p, q)
      BY DEF Agreed, Apart
    <3> QED BY <3>1 DEF Becomes, Alone, Siblings
  <2>2. \A p, o \in wire : o = p \/ Alone(p, o) \/ Siblings(p, o)
    BY DEF Agreed, Apart
  <2>3. wire' = (wire \ {q}) \cup {n}
    BY DEF Becomes
  <2> HIDE DEF Alone, Siblings
  <2>4. \A p, o \in wire' : o = p \/ Alone(p, o) \/ Siblings(p, o)
    BY <2>1, <2>2, <2>3
  <2> QED BY <2>4 DEF Apart, Alone, Siblings
<1>2. ASSUME NEW p \in wire', p.at = "sent" PROVE MeansWell(p)'
  <2>1. p \in wire /\ p # q /\ MeansWell(p)
    BY <1>2 DEF Becomes, Agreed, Means
  <2>2. \A x \in Targets(p) : PlaceSame(x)
    <3>1. CASE Unwritten(q)
      BY <3>1, SameFileSame DEF Unwritten
    <3>2. CASE q.at = "sent" /\ Written(q)
      <4>1. MeansWell(q)
        BY <3>2 DEF Agreed, Means
      <4>2. Targets(q) \cap Targets(p) = {}
        BY <2>1, <4>1, TargetsApart DEF Agreed
      <4>3. Targets(p) \subseteq Place
        <5>1. p \in Requests /\ p.touch \in SUBSET Place
          BY <2>1 DEF TypeInv, WireOK, Requests
        <5> QED BY <2>1, <5>1, TargetsTouched
      <4> QED BY <3>2, <4>2, <4>3 DEF Written
    <3> QED BY <3>1, <3>2
  <2>3. WishFor({}, {})
    BY DEF WishFor
  <2>4. {} \in SUBSET Place /\ {} \in SUBSET Subject
        /\ p.touch \cap {} = {} /\ p.subj \cap {} = {}
    OBVIOUS
  <2>5. doubt \subseteq doubt'
    BY DEF Unwritten, Written
  <2> HIDE DEF MeansWell
  <2> QED BY <2>1, <2>2, <2>3, <2>4, <2>5, StillMeans
<1>3. Means'
  <2> HIDE DEF MeansWell
  <2> QED BY <1>2 DEF Means
<1>4. ASSUME NEW p \in wire, p.at = "sent", p # q PROVE p \in wire'
  BY <1>4 DEF Becomes
<1>5. doubt \subseteq doubt'
  BY DEF Unwritten, Written
<1>6. ASSUME NEW d \in Device, NEW r \in RoomId PROVE RoomKept(d, r)'
  <2>1. r # "favs" /\ r \in Place
    BY FavsAssumption, RoomPlace
  <2>2. CASE <<"room", d>> \in doubt
    BY <1>5, <2>2 DEF RoomKept
  <2>3. CASE \E p \in wire \ {q} : Decides(p, d, r)
    <3>1. PICK p \in wire \ {q} : Decides(p, d, r)
      BY <2>3
    <3>2. p \in wire' /\ Decides(p, d, r)'
      BY <1>4, <3>1 DEF Decides
    <3> QED BY <3>2 DEF RoomKept
  <2>4. CASE Decides(q, d, r)
    <3>1. CASE Unwritten(q)
      BY <2>4, <3>1 DEF Unwritten, Decides, RoomKept
    <3>2. CASE q.at = "sent" /\ Written(q)
      <4>1. r \in Targets(q) /\ <<"room", d>> \in q.subj
        BY <2>4, <3>2, DecidesTargets DEF Agreed, Means, Decides
      <4>2. \/ <<"room", d>> \in doubt
            \/ r \in MeantRooms(file', d) <=> r \in wish.room[d]
        BY <3>2, <4>1 DEF Written
      <4> HIDE DEF MeantRooms
      <4> QED BY <1>5, <4>2 DEF RoomKept
    <3> QED BY <3>1, <3>2
  <2>5. CASE r \in MeantRooms(file, d) <=> r \in wish.room[d]
    <3>1. \/ <<"room", d>> \in doubt'
          \/ r \in MeantRooms(file', d) <=> r \in wish.room[d]
      <4>1. CASE Unwritten(q)
        BY <2>5, <4>1 DEF Unwritten
      <4>2. CASE Written(q) /\ r \in Targets(q)
        BY <1>5, <2>5, <4>2 DEF Written
      <4>3. CASE Written(q) /\ r \notin Targets(q)
        BY <2>1, <2>5, <4>3 DEF Written, PlaceSame
      <4> QED BY <4>1, <4>2, <4>3
    <3> HIDE DEF MeantRooms
    <3> QED BY <3>1 DEF RoomKept
  <2>6. RoomKept(d, r)
    BY DEF Agreed, Kept
  <2> QED BY <2>2, <2>3, <2>4, <2>5, <2>6 DEF RoomKept
<1>7. ASSUME NEW d \in Device PROVE StarKept(d)'
  <2>2. CASE <<"star", d>> \in doubt
    BY <1>5, <2>2 DEF StarKept
  <2>3. CASE \E p \in wire \ {q} : p.at = "sent" /\ <<"star", d>> \in p.subj
    BY <1>4, <2>3 DEF StarKept
  <2>4. CASE q.at = "sent" /\ <<"star", d>> \in q.subj
    <3>1. CASE Unwritten(q)
      BY <2>4, <3>1 DEF Unwritten, StarKept
    <3>2. CASE Written(q)
      <4>1. "favs" \in Targets(q)
        BY <2>4, DecidesTargets DEF Agreed, Means
      <4>2. \/ <<"star", d>> \in doubt
            \/ d \in Meant(file'.favs) <=> d \in wish.star
        BY <2>4, <3>2, <4>1 DEF Written
      <4> HIDE DEF Meant
      <4> QED BY <1>5, <4>2 DEF StarKept
    <3> QED BY <3>1, <3>2
  <2>5. CASE d \in Meant(file.favs) <=> d \in wish.star
    <3>1. \/ <<"star", d>> \in doubt'
          \/ d \in Meant(file'.favs) <=> d \in wish.star
      <4>1. CASE Unwritten(q)
        BY <2>5, <4>1 DEF Unwritten
      <4>2. CASE Written(q) /\ "favs" \in Targets(q)
        BY <1>5, <2>5, <4>2 DEF Written
      <4>3. CASE Written(q) /\ "favs" \notin Targets(q)
        BY <2>5, <4>3, RoomPlace DEF Written, PlaceSame
      <4> QED BY <4>1, <4>2, <4>3
    <3> HIDE DEF Meant
    <3> QED BY <3>1 DEF StarKept
  <2>6. StarKept(d)
    BY DEF Agreed, Kept
  <2> QED BY <2>2, <2>3, <2>4, <2>5, <2>6 DEF StarKept
<1> HIDE DEF RoomKept, StarKept
<1>8. Kept'
  BY <1>6, <1>7 DEF Kept
<1> QED BY <1>1, <1>3, <1>8 DEF Agreed

\* An answer that is read leaves the wire.
LEMMA ReadAgrees ==
  ASSUME Agreed, wire' \subseteq wire,
         \A q \in wire \ wire' : q.at # "sent",
         UNCHANGED <<file, wish, doubt>>
  PROVE  Agreed'
<1>1. Apart'
  BY DEF Agreed, Apart, Alone, Siblings
<1>2. ASSUME NEW q \in wire', q.at = "sent" PROVE MeansWell(q)'
  <2>1. MeansWell(q)
    BY <1>2 DEF Agreed, Means
  <2> QED BY <2>1 DEF MeansWell, UpdateMeans, DeleteMeans, StarMeans,
                     RestoreMeans
<1>3. Means'
  <2> HIDE DEF MeansWell
  <2> QED BY <1>2 DEF Means
<1>4. ASSUME NEW d \in Device
      PROVE  StarKept(d)' /\ \A r \in RoomId : RoomKept(d, r)'
  <2>1. StarKept(d) /\ \A r \in RoomId : RoomKept(d, r)
    BY DEF Agreed, Kept
  <2>2. StarKept(d)'
    <3> HIDE DEF Meant
    <3> QED BY <2>1 DEF StarKept
  <2>3. ASSUME NEW r \in RoomId PROVE RoomKept(d, r)'
    <3> HIDE DEF MeantRooms
    <3>1. \A q \in wire : Decides(q, d, r) => q \in wire' /\ Decides(q, d, r)'
      BY DEF Decides
    <3> HIDE DEF Decides
    <3> QED BY <2>1, <3>1 DEF RoomKept
  <2> QED BY <2>2, <2>3
<1>5. Kept'
  BY <1>4 DEF Kept
<1> QED BY <1>1, <1>3, <1>5 DEF Agreed

\* What every handler does besides the file.
LEMMA HandleBecomes ==
  ASSUME TypeInv, NEW q \in wire, NEW act, NEW io, NEW how \in {"ok", "fail"},
         NEW doc, Handle(q, act, io, how, doc), "update" \in act => doc = q.doc
  PROVE  /\ q.act \in act /\ q.at = "sent" /\ wish' = wish
         /\ \E n : Becomes(q, n)
         /\ io = "fine" => doubt' = doubt
         /\ io # "fine" => doubt' = doubt \cup q.subj
<1> DEFINE n == [q EXCEPT !.at = how, !.doc = doc]
<1>1. q \in Requests
  BY DEF TypeInv, WireOK
<1>2. /\ n.at = how /\ n.doc = doc
      /\ n.act = q.act /\ n.touch = q.touch /\ n.subj = q.subj
  BY <1>1 DEF Requests
<1>3. wire' = (wire \ {q}) \cup {n} /\ q.act \in act
  BY DEF Handle
<1>4. Becomes(q, n)
  <2> HIDE DEF n
  <2> QED BY <1>2, <1>3 DEF Becomes
<1>5. /\ q.act \in act /\ q.at = "sent" /\ wish' = wish
      /\ doubt' = IF io = "fine" THEN doubt ELSE doubt \cup q.subj
  BY DEF Handle
<1> HIDE DEF n
<1> QED BY <1>4, <1>5

LEMMA FileIn ==
  ASSUME TypeInv
  PROVE  /\ file \in Doc /\ file.rooms \in Maps
         /\ DOMAIN file.rooms \in SUBSET RoomId
         /\ Read("fine") = file
  BY DocOut DEF TypeInv, FileOK, Read

LEMMA NothingRead ==
  Read("unreadable") = EmptyDoc /\ DOMAIN Read("unreadable").rooms = {}
  BY EmptyDocIn DEF Read

\* Rooms and stars of the file after a write.
LEMMA OverMeans ==
  ASSUME NEW f, NEW g, NEW doc, doc.rooms = Over(f, g), NEW d \in Device, NEW r
  PROVE  r \in MeantRooms(doc, d)
           <=> IF r \in DOMAIN f THEN d \in Meant(f[r])
               ELSE r \in DOMAIN g /\ d \in Meant(g[r])
<1>1. DOMAIN doc.rooms = DOMAIN f \cup DOMAIN g
  BY DEF Over
<1>2. ASSUME r \in DOMAIN f \cup DOMAIN g
      PROVE  doc.rooms[r] = IF r \in DOMAIN f THEN f[r] ELSE g[r]
  BY <1>2 DEF Over
<1> QED BY <1>1, <1>2 DEF MeantRooms

LEMMA UpdateAgrees ==
  ASSUME TypeInv, Agreed, NEW q \in wire, NEW io \in IO, UpdateGroup(q, io)
  PROVE  Agreed'
<1> DEFINE doc == Read(io)
           new == [doc EXCEPT !.rooms = Over(q.doc.rooms, @)]
           known == DOMAIN q.doc.rooms \subseteq DOMAIN doc.rooms
           how == IF known THEN "ok" ELSE "fail"
<1>1. /\ Handle(q, {"update", "rename"}, io, how, q.doc)
      /\ IF known /\ q.act = "update" THEN Save(new, io) ELSE UNCHANGED file
  BY DEF UpdateGroup
<1>2. /\ q.act \in {"update", "rename"} /\ q.at = "sent" /\ wish' = wish
      /\ \E n : Becomes(q, n)
      /\ io = "fine" => doubt' = doubt
      /\ io # "fine" => doubt' = doubt \cup q.subj
  <2>1. how \in {"ok", "fail"}
    OBVIOUS
  <2> HIDE DEF how, new, known, doc
  <2> QED BY <1>1, <2>1, HandleBecomes
<1>3. MeansWell(q)
  BY <1>2 DEF Agreed, Means
<1>4. CASE q.act = "rename"
  <2>1. Written(q)
    BY <1>1, <1>2, <1>4, SameFileSame DEF Written, Targets
  <2> QED BY <1>2, <2>1, AnswerAgrees
<1>5. CASE q.act = "update"
  <2>1. PICK d \in Device, r \in DOMAIN file.rooms :
          /\ DOMAIN q.doc.rooms = {r} /\ q.subj = {<<"room", d>>}
          /\ \A e \in Device \ {d} :
               \/ <<"room", e>> \in doubt
               \/ r \in MeantRooms(q.doc, e) <=> r \in MeantRooms(file, e)
          /\ r \in MeantRooms(q.doc, d) <=> r \in wish.room[d]
    BY <1>3, <1>5 DEF MeansWell, UpdateMeans
  <2>2. CASE io = "fine"
    <3>1. doc = file /\ known
      BY <2>1, <2>2, FileIn
    <3>2. file' = new
      <4> HIDE DEF new, known, doc
      <4> QED BY <1>1, <1>5, <2>2, <3>1 DEF Save
    <3>3. file'.rooms = Over(q.doc.rooms, file.rooms)
          /\ file'.favs = file.favs
      <4>1. Over(q.doc.rooms, file.rooms) \in Maps
        BY FileIn, RequestDoc, OverIn
      <4>2. new = [file EXCEPT !.rooms = Over(q.doc.rooms, file.rooms)]
        BY <3>1
      <4> HIDE DEF new, known, doc
      <4> QED BY <3>2, <4>1, <4>2, FileIn, RoomsReplaced
    <3>4. \A x \in RoomId, e \in Device :
            x \in MeantRooms(file', e)
              <=> IF x = r THEN r \in MeantRooms(q.doc, e)
                  ELSE x \in MeantRooms(file, e)
      <4>1. ASSUME NEW x, NEW e \in Device
            PROVE  x \in MeantRooms(file', e)
                     <=> IF x \in DOMAIN q.doc.rooms
                         THEN e \in Meant(q.doc.rooms[x])
                         ELSE x \in DOMAIN file.rooms
                              /\ e \in Meant(file.rooms[x])
        BY <3>3, OverMeans
      <4>2. \A e \in Device : r \in MeantRooms(q.doc, e)
                               <=> e \in Meant(q.doc.rooms[r])
        BY <2>1 DEF MeantRooms
      <4>3. \A x, e : x \in MeantRooms(file, e)
              <=> x \in DOMAIN file.rooms /\ e \in Meant(file.rooms[x])
        BY DEF MeantRooms
      <4> QED BY <2>1, <4>1, <4>2, <4>3
    <3>5. DOMAIN file.rooms \subseteq DOMAIN file'.rooms
      BY <3>3 DEF Over
    <3>6. \A p \in Place \ {r} : PlaceSame(p)
      <4> HIDE DEF MeantRooms
      <4> QED BY <3>3, <3>4, <3>5 DEF PlaceSame, Place
    <3>7. Targets(q) = {r} /\ r \in RoomId /\ r # "favs"
      BY <1>5, <2>1, FileIn, FavsAssumption DEF Targets
    <3>8. ASSUME NEW e \in Device
          PROVE  \/ <<"room", e>> \in doubt
                 \/ r \in MeantRooms(file', e) <=> r \in wish.room[e]
                 \/ /\ <<"room", e>> \notin q.subj
                    /\ r \in MeantRooms(file', e) <=> r \in MeantRooms(file, e)
      <4>1. CASE e = d
        BY <2>1, <3>4, <3>7, <4>1
      <4>2. CASE e # d
        <5>1. <<"room", e>> \notin q.subj
          BY <2>1, <4>2
        <5> QED BY <2>1, <3>4, <3>7, <4>2, <5>1
      <4> QED BY <4>1, <4>2
    <3>9. Written(q)
      <4> HIDE DEF MeantRooms, new, known, doc
      <4> QED BY <1>2, <2>2, <3>6, <3>7, <3>8 DEF Written
    <3> QED BY <1>2, <3>9, AnswerAgrees
  <2>3. CASE io = "unwritable"
    <3>1. file' = file
      BY <1>1, <2>3 DEF Save
    <3> QED BY <1>2, <2>3, <3>1, AnswerAgrees DEF Unwritten
  <2>4. CASE io = "unreadable"
    <3>1. ~known
      BY <2>1, <2>4, NothingRead
    <3>2. file' = file
      BY <1>1, <3>1
    <3> QED BY <1>2, <2>4, <3>2, AnswerAgrees DEF Unwritten
  <2> QED BY <2>2, <2>3, <2>4 DEF IO
<1> QED BY <1>2, <1>4, <1>5

LEMMA DeleteGroupAgrees ==
  ASSUME TypeInv, Agreed, NEW q \in wire, NEW io \in IO, DeleteGroup(q, io)
  PROVE  Agreed'
<1> DEFINE doc == Read(io)
           kept == DOMAIN doc.rooms \ DOMAIN q.doc.rooms
           known == kept # DOMAIN doc.rooms
           rooms == [r \in kept |-> doc.rooms[r]]
           new == [doc EXCEPT !.rooms = rooms]
           how == IF known THEN "ok" ELSE "fail"
<1>1. /\ Handle(q, {"delete"}, io, how, q.doc)
      /\ IF known THEN Save(new, io) ELSE UNCHANGED file
  BY DEF DeleteGroup
<1>2. /\ q.act = "delete" /\ q.at = "sent" /\ wish' = wish
      /\ \E n : Becomes(q, n)
      /\ io = "fine" => doubt' = doubt
      /\ io # "fine" => doubt' = doubt \cup q.subj
  <2>1. how \in {"ok", "fail"} /\ "update" \notin {"delete"}
    OBVIOUS
  <2> HIDE DEF how, new, known, doc
  <2> QED BY <1>1, <2>1, HandleBecomes
<1>3. PICK r \in RoomId :
        /\ DOMAIN q.doc.rooms = {r}
        /\ \A d \in Device : r \notin wish.room[d]
  BY <1>2 DEF Agreed, Means, MeansWell, DeleteMeans
<1>4. CASE io = "fine"
  <2>1. doc = file
    BY <1>4, FileIn
  <2>2. /\ file'.favs = file.favs
        /\ DOMAIN file'.rooms = DOMAIN file.rooms \ {r}
        /\ \A x \in DOMAIN file'.rooms : file'.rooms[x] = file.rooms[x]
    <3>1. CASE known
      <4>1. file' = new
        <5> HIDE DEF new, known
        <5> QED BY <1>1, <1>4, <3>1 DEF Save
      <4>2. rooms \in Maps /\ DOMAIN rooms = DOMAIN file.rooms \ {r}
            /\ \A x \in DOMAIN rooms : rooms[x] = file.rooms[x]
        <5>1. DOMAIN rooms = DOMAIN file.rooms \ {r}
              /\ \A x \in DOMAIN rooms : rooms[x] = file.rooms[x]
          BY <1>3, <2>1
        <5>2. rooms \in Maps
          <6>1. kept \in SUBSET DOMAIN doc.rooms /\ doc.rooms \in Maps
            BY <2>1, FileIn
          <6> HIDE DEF kept, doc
          <6> QED BY <6>1, SomeRooms
        <5> QED BY <5>1, <5>2
      <4>3. new = [file EXCEPT !.rooms = rooms]
        BY <2>1
      <4> HIDE DEF rooms, new
      <4> QED BY <4>1, <4>2, <4>3, FileIn, RoomsReplaced
    <3>2. CASE ~known
      <4>1. file' = file
        BY <1>1, <3>2
      <4>2. DOMAIN file.rooms = DOMAIN file.rooms \ {r}
        BY <1>3, <2>1, <3>2
      <4> QED BY <4>1, <4>2
    <3> QED BY <3>1, <3>2
  <2>3. \A x \in RoomId, e \in Device :
          x \in MeantRooms(file', e) <=> x # r /\ x \in MeantRooms(file, e)
    BY <2>2 DEF MeantRooms
  <2>4. \A p \in Place \ {r} : PlaceSame(p)
    <3> HIDE DEF MeantRooms
    <3> QED BY <2>2, <2>3 DEF PlaceSame, Place
  <2>5. Targets(q) = {r} /\ r # "favs"
    BY <1>2, <1>3, FavsAssumption DEF Targets
  <2>6. Written(q)
    <3> HIDE DEF MeantRooms
    <3> QED BY <1>2, <1>3, <1>4, <2>3, <2>4, <2>5 DEF Written
  <2> QED BY <1>2, <2>6, AnswerAgrees
<1>5. CASE io = "unwritable"
  <2>1. file' = file
    BY <1>1, <1>5 DEF Save
  <2> QED BY <1>2, <1>5, <2>1, AnswerAgrees DEF Unwritten
<1>6. CASE io = "unreadable"
  <2>1. ~known
    BY <1>6, NothingRead
  <2>2. file' = file
    BY <1>1, <2>1
  <2> QED BY <1>2, <1>6, <2>2, AnswerAgrees DEF Unwritten
<1> QED BY <1>4, <1>5, <1>6 DEF IO

LEMMA CreateGroupAgrees ==
  ASSUME TypeInv, Agreed, ~muddled', NEW q \in wire, NEW io \in IO,
         NEW r \in RoomId, CreateGroup(q, io, r)
  PROVE  Agreed'
<1> DEFINE doc == Read(io)
           one == [x \in {r} |-> {}]
           new == [doc EXCEPT !.rooms = Over(one, @)]
<1>1. /\ r \notin used
      /\ Handle(q, {"create"}, io, "ok", Fragment(r, {}))
      /\ Save(new, io)
      /\ muddled' = (muddled \/ io = "unreadable")
  BY DEF CreateGroup
<1>2. /\ q.act = "create" /\ q.at = "sent" /\ wish' = wish
      /\ \E n : Becomes(q, n)
      /\ doubt \subseteq doubt'
  <2>1. "ok" \in {"ok", "fail"} /\ "update" \notin {"create"}
    OBVIOUS
  <2>2. /\ q.act \in {"create"} /\ q.at = "sent" /\ wish' = wish
        /\ \E n : Becomes(q, n)
        /\ io = "fine" => doubt' = doubt
        /\ io # "fine" => doubt' = doubt \cup q.subj
    <3> HIDE DEF new
    <3> QED BY <1>1, <2>1, HandleBecomes
  <2> QED BY <2>2
<1>3. \A p \in Place : PlaceSame(p)
  <2>1. CASE io = "fine"
    <3>1. doc = file /\ r \notin DOMAIN file.rooms
      BY <1>1, <2>1, FileIn DEF TypeInv, FileOK
    <3>2. DOMAIN one = {r} /\ one[r] = {}
      OBVIOUS
    <3>3. one \in Maps
      <4>1. one \in [{r} -> SUBSET Id] /\ {r} \in SUBSET RoomId
        OBVIOUS
      <4> HIDE DEF one
      <4> QED BY <4>1, MapIn
    <3>4. file'.rooms = Over(one, file.rooms) /\ file'.favs = file.favs
      <4>1. file' = [file EXCEPT !.rooms = Over(one, file.rooms)]
        BY <1>1, <2>1, <3>1 DEF Save
      <4> HIDE DEF one
      <4>2. Over(one, file.rooms) \in Maps
        BY <3>3, FileIn, OverIn
      <4> QED BY <4>1, <4>2, FileIn, RoomsReplaced
    <3> HIDE DEF one
    <3>5. ASSUME NEW x \in RoomId, NEW e \in Device
          PROVE  x \in MeantRooms(file', e) <=> x \in MeantRooms(file, e)
      <4>1. x \in MeantRooms(file', e)
              <=> IF x \in DOMAIN one THEN e \in Meant(one[x])
                  ELSE x \in DOMAIN file.rooms /\ e \in Meant(file.rooms[x])
        BY <3>4, OverMeans
      <4>2. e \notin Meant({})
        BY DEF Meant
      <4> QED BY <3>1, <3>2, <4>1, <4>2 DEF MeantRooms
    <3>6. DOMAIN file.rooms \subseteq DOMAIN file'.rooms
      BY <3>4 DEF Over
    <3> HIDE DEF MeantRooms
    <3> QED BY <3>4, <3>5, <3>6 DEF PlaceSame, Place
  <2>2. CASE io = "unwritable"
    BY <1>1, <2>2, SameFileSame DEF Save
  <2>3. CASE io = "unreadable"
    BY <1>1, <2>3
  <2> QED BY <2>1, <2>2, <2>3 DEF IO
<1>4. Written(q)
  BY <1>2, <1>3 DEF Written, Targets
<1> QED BY <1>2, <1>4, AnswerAgrees

LEMMA SetFavoritesAgrees ==
  ASSUME TypeInv, Agreed, ~muddled', NEW q \in wire, NEW io \in IO,
         SetFavorites(q, io)
  PROVE  Agreed'
<1> DEFINE new == [Read(io) EXCEPT !.favs = q.doc.favs]
<1>1. /\ Handle(q, {"star"}, io, "ok", q.doc)
      /\ Save(new, io)
      /\ muddled' = (muddled \/ io = "unreadable")
  BY DEF SetFavorites
<1>2. /\ q.act = "star" /\ q.at = "sent" /\ wish' = wish
      /\ \E n : Becomes(q, n)
      /\ io = "fine" => doubt' = doubt
      /\ io # "fine" => doubt' = doubt \cup q.subj
  <2>1. "ok" \in {"ok", "fail"} /\ "update" \notin {"star"}
    OBVIOUS
  <2> HIDE DEF new
  <2> QED BY <1>1, <2>1, HandleBecomes
<1>3. PICK d \in Device :
        /\ q.subj = {<<"star", d>>}
        /\ \A e \in Device \ {d} :
             \/ <<"star", e>> \in doubt
             \/ e \in Meant(q.doc.favs) <=> e \in Meant(file.favs)
        /\ d \in Meant(q.doc.favs) <=> d \in wish.star
  BY <1>2 DEF Agreed, Means, MeansWell, StarMeans
<1>4. CASE io = "fine"
  <2>1. file' = [file EXCEPT !.favs = q.doc.favs]
    BY <1>1, <1>4, FileIn DEF Save
  <2>2. file'.rooms = file.rooms /\ file'.favs = q.doc.favs
    BY <2>1, FileIn, RequestDoc, FavsReplaced
  <2>3. \A p \in Place \ {"favs"} : PlaceSame(p)
    BY <2>2 DEF PlaceSame, MeantRooms
  <2>4. Targets(q) = {"favs"}
    BY <1>2 DEF Targets
  <2>5. RoomId \cap {"favs"} = {}
    BY FavsAssumption
  <2>6. Written(q)
    <3> HIDE DEF Meant
    <3> QED BY <1>2, <1>3, <1>4, <2>2, <2>3, <2>4, <2>5 DEF Written
  <2> QED BY <1>2, <2>6, AnswerAgrees
<1>5. CASE io = "unwritable"
  <2>1. file' = file
    BY <1>1, <1>5 DEF Save
  <2> QED BY <1>2, <1>5, <2>1, AnswerAgrees DEF Unwritten
<1>6. CASE io = "unreadable"
  BY <1>1, <1>6
<1> QED BY <1>4, <1>5, <1>6 DEF IO

LEMMA RestoreAgrees ==
  ASSUME TypeInv, Agreed, NEW q \in wire, NEW io \in IO, RestoreGroups(q, io)
  PROVE  Agreed'
<1>1. /\ Handle(q, {"restore"}, io, "ok", q.doc)
      /\ Save(q.doc, io)
      /\ io # "unreadable"
  BY DEF RestoreGroups
<1>2. /\ q.act = "restore" /\ q.at = "sent" /\ wish' = wish
      /\ \E n : Becomes(q, n)
      /\ io = "fine" => doubt' = doubt
      /\ io # "fine" => doubt' = doubt \cup q.subj
  <2>1. "ok" \in {"ok", "fail"} /\ "update" \notin {"restore"}
    OBVIOUS
  <2> QED BY <1>1, <2>1, HandleBecomes
<1>3. wish = WishOf(q.doc)
  BY <1>2 DEF Agreed, Means, MeansWell, RestoreMeans
<1>4. CASE io = "fine"
  <2>1. file' = q.doc
    BY <1>1, <1>4 DEF Save
  <2>2. ASSUME NEW d \in Device
        PROVE  /\ wish.room[d] = MeantRooms(file', d)
               /\ d \in Meant(file'.favs) <=> d \in wish.star
    BY <1>3, <2>1 DEF WishOf
  <2>3. Targets(q) = Place
    BY <1>2 DEF Targets
  <2>4. Written(q)
    <3> HIDE DEF MeantRooms, Meant
    <3> QED BY <1>2, <1>4, <2>2, <2>3 DEF Written
  <2> QED BY <1>2, <2>4, AnswerAgrees
<1>5. CASE io = "unwritable"
  <2>1. file' = file
    BY <1>1, <1>5 DEF Save
  <2> QED BY <1>2, <1>5, <2>1, AnswerAgrees DEF Unwritten
<1> QED BY <1>1, <1>4, <1>5 DEF IO

LEMMA LoseAgrees ==
  ASSUME TypeInv, Agreed, NEW q \in wire, Lose(q)
  PROVE  Agreed'
<1> DEFINE n == [q EXCEPT !.at = "fail"]
<1>1. /\ n.at = "fail" /\ n.doc = q.doc /\ n.act = q.act
      /\ n.touch = q.touch /\ n.subj = q.subj
  BY LostRequest DEF TypeInv, WireOK
<1>2. wire' = (wire \ {q}) \cup {n} /\ wish' = wish /\ Unwritten(q)
  BY DEF Lose, server, Unwritten
<1> HIDE DEF n
<1>3. Becomes(q, n)
  BY <1>1, <1>2 DEF Becomes
<1> QED BY <1>2, <1>3, AnswerAgrees

-----------------------------------------------------------------------------
(* Edits settle                                                            *)

LEMMA RekeyEmpty ==
  ASSUME NEW a, NEW d \in Device PROVE RekeyDoc(EmptyDoc, a, d) = EmptyDoc
<1>1. Rekey({}, a, d) = {}
  BY DEF Rekey
<1>2. RekeyDoc(EmptyDoc, a, d)
        = [rooms |-> [r \in {} |-> Rekey(EmptyDoc.rooms[r], a, d)],
           favs |-> {}]
  BY <1>1, EmptyDocIn DEF RekeyDoc
<1>3. [r \in {} |-> Rekey(EmptyDoc.rooms[r], a, d)] = [r \in {} |-> {}]
  OBVIOUS
<1> QED BY <1>2, <1>3 DEF EmptyDoc

\* What a discovery does to the file: nothing, or the re-keying.
LEMMA DiscoverFile ==
  ASSUME TypeInv, NEW d \in Device, NEW io \in IO, Discover(d, io)
  PROVE  file' = file \/ file' = RekeyDoc(file, host[d], d)
<1>1. CASE io = "unreadable"
  BY <1>1, RekeyEmpty DEF Discover, Read
<1>2. CASE io # "unreadable"
  BY <1>2 DEF Discover, Read, Save
<1> QED BY <1>1, <1>2

\* An address is no device, and belongs to one device or none.
LEMMA HostIs ==
  ASSUME HostOK, NEW d \in Device
  PROVE  /\ host[d] \notin Device
         /\ \A x \in Device : Ip(x) = Ip(d) <=> x = d
<1>1. host[d] \in Address
  BY DEF HostOK
<1>2. Elsewhere \notin Device /\ \A x \in Device : Ip(x) \notin Device
  BY ElsewhereAssumption, IpAssumption DEF Id
<1>3. \A x \in Device : Ip(x) = Ip(d) <=> x = d
  BY DEF Ip
<1> HIDE DEF Ip
<1> QED BY <1>1, <1>2, <1>3 DEF Address

\* Where nothing under way or wished changes, and the file keeps the devices
\* it stands for.
LEMMA FileAgrees ==
  ASSUME TypeInv, Agreed, UNCHANGED <<wire, wish>>, doubt \subseteq doubt',
         \A p \in Place : PlaceSame(p)
  PROVE  Agreed'
<1>1. Apart'
  BY DEF Agreed, Apart, Alone, Siblings
<1>2. ASSUME NEW q \in wire', q.at = "sent" PROVE MeansWell(q)'
  <2>1. q \in wire /\ MeansWell(q)
    BY <1>2 DEF Agreed, Means
  <2>2. q.touch \in SUBSET Place
    BY <2>1 DEF TypeInv, WireOK, Requests
  <2>3. WishFor({}, {})
    BY DEF WishFor
  <2>4. {} \in SUBSET Place /\ {} \in SUBSET Subject
        /\ q.touch \cap {} = {} /\ q.subj \cap {} = {}
        /\ \A p \in Targets(q) : PlaceSame(p)
    BY <2>1, <2>2, TargetsTouched
  <2> HIDE DEF MeansWell
  <2> QED BY <2>1, <2>3, <2>4, StillMeans
<1>3. Means'
  <2> HIDE DEF MeansWell
  <2> QED BY <1>2 DEF Means
<1>4. ASSUME NEW d \in Device
      PROVE  StarKept(d)' /\ \A r \in RoomId : RoomKept(d, r)'
  <2>1. StarKept(d) /\ \A r \in RoomId : RoomKept(d, r)
    BY DEF Agreed, Kept
  <2>2. \/ <<"star", d>> \in doubt'
        \/ d \in Meant(file'.favs) <=> d \in Meant(file.favs)
    BY RoomPlace DEF PlaceSame
  <2>3. \A r \in RoomId :
          \/ <<"room", d>> \in doubt'
          \/ r \in MeantRooms(file', d) <=> r \in MeantRooms(file, d)
    BY RoomPlace, FavsAssumption DEF PlaceSame
  <2> HIDE DEF Meant, MeantRooms
  <2>4. StarKept(d)'
    BY <2>1, <2>2 DEF StarKept
  <2>5. \A r \in RoomId : RoomKept(d, r)'
    BY <2>1, <2>3 DEF RoomKept, Decides
  <2> QED BY <2>4, <2>5
<1>5. Kept'
  BY <1>4 DEF Kept
<1> QED BY <1>1, <1>3, <1>5 DEF Agreed

LEMMA DiscoverAgrees ==
  ASSUME TypeInv, HostOK, Agreed, NEW d \in Device, NEW io \in IO,
         Discover(d, io)
  PROVE  Agreed'
<1>1. UNCHANGED <<wire, wish>> /\ doubt \subseteq doubt'
  BY DEF Discover
<1>2. \A p \in Place : PlaceSame(p)
  <2>1. CASE file' = file
    BY <2>1, SameFileSame
  <2>2. CASE file' # file /\ file' = RekeyDoc(file, host[d], d)
    <3>1. /\ DOMAIN file'.rooms = DOMAIN file.rooms
          /\ \A x \in Device : host[d] = Ip(d) \/ (x # d /\ Ip(x) # host[d])
               => /\ x \in Meant(file'.favs) <=> x \in Meant(file.favs)
                  /\ \A r : r \in MeantRooms(file', x)
                              <=> r \in MeantRooms(file, x)
      BY <2>2, FileIn, HostIs, RekeySame
    <3>2. \A x \in Device :
            \/ host[d] = Ip(d) \/ (x # d /\ Ip(x) # host[d])
            \/ <<"room", x>> \in doubt' /\ <<"star", x>> \in doubt'
      BY <2>2 DEF Discover, Mistaken
    <3> HIDE DEF Meant, MeantRooms, Ip
    <3> QED BY <3>1, <3>2 DEF PlaceSame
  <2> QED BY <2>1, <2>2, DiscoverFile
<1> QED BY <1>1, <1>2, FileAgrees

\* The answers a tab reads, and the steps that are about nothing of this.
LEMMA AnswersAgree ==
  ASSUME Agreed, NEW q \in wire, AnswerOk(q) \/ AnswerFailed(q)
  PROVE  Agreed'
<1>1. /\ wire' = wire \ {q} /\ q.at # "sent"
      /\ UNCHANGED <<file, wish, doubt>>
  BY DEF AnswerOk, AnswerFailed, server, history
<1> QED BY <1>1, ReadAgrees

LEMMA QuietAgrees ==
  ASSUME Agreed, UNCHANGED <<file, wire, wish, doubt>>
  PROVE  Agreed'
  BY ReadAgrees

\* What is muddled stays muddled.
LEMMA StaysMuddled ==
  ASSUME [Next]_vars, ~muddled'
  PROVE  ~muddled
<1> SUFFICES ASSUME muddled PROVE FALSE
  OBVIOUS
<1>0. Handled \subseteq Device
  BY BoundsAssumption
<1>1. ASSUME NEW t, NEW of, NEW new, NEW msgs, NEW subj, NEW touch,
             NEW sound, Edit(t, of, new, msgs, subj, touch, sound)
      PROVE  FALSE
  BY <1>1, EditSends
<1>2. ASSUME NEW t \in Tab, ConfirmRestore(t) PROVE FALSE
  <2>1. muddled' = (muddled \/ wire # {})
    BY <1>2, Zenon DEF ConfirmRestore
  <2> QED BY <2>1
<1>3. ASSUME Click PROVE FALSE
  <2>1. \A t \in Tab : ~Reload(t)
    BY DEF Reload
  <2>2. ASSUME NEW t \in Tab, NEW d \in Device, NEW to, AssignDevice(t, d, to)
        PROVE  FALSE
    BY <1>1, <2>2, AssignIs
  <2>3. ASSUME NEW t \in Tab, NEW r, DeleteRoom(t, r) \/ RenameRoom(t, r)
        PROVE  FALSE
    BY <1>1, <2>3 DEF DeleteRoom, RenameRoom
  <2>4. ASSUME NEW t \in Tab, NEW d, CreateRoom(t) \/ ToggleFavorite(t, d)
        PROVE  FALSE
    BY <1>1, <2>4 DEF CreateRoom, ToggleFavorite
  <2> QED BY <1>0, <1>2, <1>3, <2>1, <2>2, <2>3, <2>4 DEF Click
<1>4. ASSUME Serve PROVE FALSE
  BY <1>4 DEF Serve, UpdateGroup, DeleteGroup, CreateGroup, SetFavorites,
     RestoreGroups
<1>5. ASSUME Background PROVE FALSE
  BY <1>5 DEF Background, ReadPart, Loaded, LoadFails, Download, Discover,
     Move, Restart, history
<1>6. ASSUME NEW q \in wire, AnswerOk(q) \/ AnswerFailed(q) \/ Lose(q)
      PROVE  FALSE
  BY <1>6 DEF AnswerOk, AnswerFailed, Lose, history
<1> QED BY <1>3, <1>4, <1>5, <1>6 DEF Next, vars

LEMMA AgreedNext ==
  ASSUME TypeInv, HostOK, ~muddled => Agreed, [Next]_vars
  PROVE  ~muddled' => Agreed'
<1> SUFFICES ASSUME ~muddled' PROVE Agreed'
  OBVIOUS
<1>0. Handled \subseteq Device
  BY BoundsAssumption
<1>1. Agreed
  BY StaysMuddled
<1>2. ASSUME NEW t \in Tab, ConfirmRestore(t) PROVE Agreed'
  BY <1>2, ConfirmAgrees
<1>3. CASE Click
  <2>1. ASSUME NEW t \in Tab, Reload(t) PROVE Agreed'
    BY <1>1, <2>1, QuietAgrees DEF Reload, server
  <2> QED BY <1>0, <1>1, <1>2, <1>3, <2>1, AssignAgrees, DeleteAgrees,
             RenameAgrees, CreateAgrees, ToggleAgrees DEF Click
<1>4. CASE Serve
  BY <1>1, <1>4, UpdateAgrees, DeleteGroupAgrees, CreateGroupAgrees,
     SetFavoritesAgrees, RestoreAgrees DEF Serve
<1>5. CASE Background
  <2>1. CASE \E d \in Handled, io \in IO : Discover(d, io)
    BY <1>0, <1>1, <2>1, DiscoverAgrees
  <2>2. CASE ~\E d \in Handled, io \in IO : Discover(d, io)
    <3>1. UNCHANGED <<file, wire, wish, doubt>>
      BY <1>5, <2>2 DEF Background, ReadPart, Loaded, LoadFails, Download,
         Move, Restart, server, history
    <3> QED BY <1>1, <3>1, QuietAgrees
  <2> QED BY <2>1, <2>2
<1>6. CASE \E q \in wire : AnswerOk(q) \/ AnswerFailed(q) \/ Lose(q)
  BY <1>1, <1>6, AnswersAgree, LoseAgrees
<1>7. CASE UNCHANGED vars
  BY <1>1, <1>7, QuietAgrees DEF vars
<1> QED BY <1>3, <1>4, <1>5, <1>6, <1>7 DEF Next

-----------------------------------------------------------------------------
(* Migrated devices are listed under their stable id                       *)

\* An id the file or a request lists.
Known(x) == x \in Listed(file) \/ \E q \in wire : x \in Listed(q.doc)

LEMMA CarriedKept ==
  ASSUME TypeInv, Carried, migrated' \subseteq migrated,
         carried \subseteq carried',
         \A d \in Device \ carried' : Ip(d) \in Listed(file') => Known(Ip(d)),
         \A n \in wire' \ wire, d \in Device \ carried' :
           Ip(d) \in Listed(n.doc) => Known(Ip(d))
  PROVE  Carried'
<1>1. \A d \in migrated \ carried : ~Known(Ip(d))
  BY DEF Carried, Known
<1>2. ASSUME NEW d \in migrated' \ carried'
      PROVE  /\ d \in migrated \ carried /\ d \in Device \ carried'
             /\ ~Known(Ip(d))
  BY <1>1, <1>2 DEF TypeInv, FileOK
<1>3. ASSUME NEW d \in migrated' \ carried'
      PROVE  Ip(d) \notin Listed(file')
  BY <1>2, <1>3
<1>4. ASSUME NEW d \in migrated' \ carried', NEW q \in wire'
      PROVE  Ip(d) \notin Listed(q.doc)
  <2>1. CASE q \in wire
    BY <1>2, <1>4, <2>1 DEF Known
  <2>2. CASE q \notin wire
    BY <1>2, <1>4, <2>2
  <2> QED BY <2>1, <2>2
<1> QED BY <1>3, <1>4 DEF Carried

\* The file stays as it is and no request is sent.
LEMMA CarriedQuiet ==
  ASSUME TypeInv, Carried, file' = file, wire' \subseteq wire,
         migrated' \subseteq migrated, carried' = carried
  PROVE  Carried'
  BY CarriedKept DEF Known

LEMMA EditCarried ==
  ASSUME TypeInv, Carried, NEW t, NEW of, NEW new, NEW msgs, NEW subj,
         NEW touch, NEW sound, Edit(t, of, new, msgs, subj, touch, sound)
  PROVE  Carried'
<1>1. /\ UNCHANGED <<file, migrated>>
      /\ carried' = carried \cup
           {d \in Device : \E m \in msgs : Ip(d) \in Listed(m[2])}
  BY DEF Edit, server
<1>2. ASSUME NEW n \in wire' \ wire
      PROVE  \E m \in msgs : n.doc = m[2]
  BY <1>2 DEF Edit
<1>3. \A n \in wire' \ wire, d \in Device \ carried' :
        Ip(d) \notin Listed(n.doc)
  BY <1>1, <1>2
<1> QED BY <1>1, <1>3, CarriedKept DEF Known

LEMMA ConfirmCarried ==
  ASSUME TypeInv, Carried, NEW t \in Tab, ConfirmRestore(t)
  PROVE  Carried'
<1>1. /\ UNCHANGED <<file, migrated>>
      /\ carried' = carried \cup
           {d \in Device : Ip(d) \in Listed(backup)}
  BY DEF ConfirmRestore, server
<1>2. \A n \in wire' \ wire : n.doc = backup
  BY DEF ConfirmRestore
<1> QED BY <1>1, <1>2, CarriedKept DEF Known

LEMMA EmptyListed == Listed(EmptyDoc) = {}
  BY EmptyDocIn DEF Listed

LEMMA ReadListed == ASSUME NEW io PROVE Listed(Read(io)) \subseteq Listed(file)
  BY EmptyListed DEF Read

LEMMA OverListed ==
  ASSUME NEW doc, NEW f, NEW g, doc.rooms = Over(f.rooms, g.rooms),
         doc.favs = g.favs
  PROVE  Listed(doc) \subseteq Listed(f) \cup Listed(g)
<1>1. /\ DOMAIN doc.rooms = DOMAIN f.rooms \cup DOMAIN g.rooms
      /\ \A r \in DOMAIN doc.rooms :
           \/ r \in DOMAIN f.rooms /\ doc.rooms[r] = f.rooms[r]
           \/ r \in DOMAIN g.rooms /\ doc.rooms[r] = g.rooms[r]
  BY DEF Over
<1>2. ASSUME NEW x \in Listed(doc) PROVE x \in Listed(f) \cup Listed(g)
  <2>1. CASE x \in doc.favs
    BY <2>1 DEF Listed
  <2>2. CASE \E r \in DOMAIN doc.rooms : x \in doc.rooms[r]
    BY <1>1, <2>2 DEF Listed
  <2> QED BY <1>2, <2>1, <2>2 DEF Listed
<1> QED BY <1>2

\* A handler that writes nothing but what the file and the request list.
LEMMA HandleCarried ==
  ASSUME TypeInv, Carried, NEW q \in wire, NEW act, NEW io, NEW how, NEW doc,
         Handle(q, act, io, how, doc), Listed(doc) \subseteq Listed(q.doc),
         Listed(file') \subseteq Listed(file) \cup Listed(q.doc)
  PROVE  Carried'
<1>1. UNCHANGED <<migrated, carried>>
  BY DEF Handle
<1>2. \A n \in wire' \ wire : n.doc = doc
  <2>1. q \in Requests
    BY RequestDoc
  <2> QED BY <2>1 DEF Handle, Requests
<1> QED BY <1>1, <1>2, CarriedKept DEF Known

LEMMA UpdateCarried ==
  ASSUME TypeInv, Carried, NEW q \in wire, NEW io \in IO, UpdateGroup(q, io)
  PROVE  Carried'
<1> DEFINE doc == Read(io)
           new == [doc EXCEPT !.rooms = Over(q.doc.rooms, @)]
           known == DOMAIN q.doc.rooms \subseteq DOMAIN doc.rooms
           how == IF known THEN "ok" ELSE "fail"
<1>1. Handle(q, {"update", "rename"}, io, how, q.doc)
  BY DEF UpdateGroup
<1>2. file' = file \/ file' = new
  BY DEF UpdateGroup, Save
<1>3. new.rooms = Over(q.doc.rooms, doc.rooms) /\ new.favs = doc.favs
  <2>1. doc \in Doc /\ Over(q.doc.rooms, doc.rooms) \in Maps
    BY ReadIn, RequestDoc, OverIn
  <2> HIDE DEF doc
  <2> QED BY <2>1, RoomsReplaced
<1>4. Listed(doc) \subseteq Listed(file)
  BY ReadListed
<1> HIDE DEF doc, new, how
<1>5. Listed(new) \subseteq Listed(file) \cup Listed(q.doc)
  BY <1>3, <1>4, OverListed
<1>6. Listed(file') \subseteq Listed(file) \cup Listed(q.doc)
  BY <1>2, <1>5
<1> QED BY <1>1, <1>6, HandleCarried

LEMMA DeleteGroupCarried ==
  ASSUME TypeInv, Carried, NEW q \in wire, NEW io \in IO, DeleteGroup(q, io)
  PROVE  Carried'
<1> DEFINE doc == Read(io)
           kept == DOMAIN doc.rooms \ DOMAIN q.doc.rooms
           rooms == [r \in kept |-> doc.rooms[r]]
           new == [doc EXCEPT !.rooms = rooms]
           how == IF kept # DOMAIN doc.rooms THEN "ok" ELSE "fail"
<1>1. Handle(q, {"delete"}, io, how, q.doc)
  BY DEF DeleteGroup
<1>2. file' = file \/ file' = new
  BY DEF DeleteGroup, Save
<1>3. /\ rooms \in Maps /\ DOMAIN rooms \subseteq DOMAIN doc.rooms
      /\ \A r \in DOMAIN rooms : rooms[r] = doc.rooms[r]
  <2>1. kept \in SUBSET DOMAIN doc.rooms /\ doc.rooms \in Maps
    BY ReadIn
  <2> HIDE DEF kept, doc
  <2> QED BY <2>1, SomeRooms
<1>4. new.rooms = rooms /\ new.favs = doc.favs
  <2>1. doc \in Doc
    BY ReadIn
  <2> HIDE DEF doc, rooms
  <2> QED BY <1>3, <2>1, RoomsReplaced
<1>5. Listed(doc) \subseteq Listed(file)
  BY ReadListed
<1> HIDE DEF doc, new, how, rooms
<1>6. Listed(new) \subseteq Listed(doc)
  BY <1>3, <1>4 DEF Listed
<1>7. Listed(file') \subseteq Listed(file) \cup Listed(q.doc)
  BY <1>2, <1>5, <1>6
<1> QED BY <1>1, <1>7, HandleCarried

LEMMA CreateGroupCarried ==
  ASSUME TypeInv, Carried, NEW q \in wire, NEW io \in IO, NEW r \in RoomId,
         CreateGroup(q, io, r)
  PROVE  Carried'
<1> DEFINE doc == Read(io)
           one == Fragment(r, {})
           new == [doc EXCEPT !.rooms = Over([x \in {r} |-> {}], @)]
<1>1. Handle(q, {"create"}, io, "ok", one)
  BY DEF CreateGroup
<1>2. file' = file \/ file' = new
  BY DEF CreateGroup, Save
<1>3. {} \in SUBSET Id
  OBVIOUS
<1>4. /\ one \in Doc /\ one.rooms = [x \in {r} |-> {}] /\ one.favs = {}
      /\ DOMAIN one.rooms = {r} /\ one.rooms[r] = {}
  BY <1>3, FragmentIn DEF Fragment, EmptyDoc
<1>5. new.rooms = Over(one.rooms, doc.rooms) /\ new.favs = doc.favs
  <2>1. doc \in Doc /\ doc.rooms \in Maps
    BY ReadIn
  <2>2. one.rooms \in Maps
    BY <1>4, DocOut
  <2>3. new = [doc EXCEPT !.rooms = Over(one.rooms, doc.rooms)]
    BY <1>4
  <2> HIDE DEF doc, one, new
  <2>4. Over(one.rooms, doc.rooms) \in Maps
    BY <2>1, <2>2, OverIn
  <2> QED BY <2>1, <2>3, <2>4, RoomsReplaced
<1>6. Listed(doc) \subseteq Listed(file)
  BY ReadListed
<1> HIDE DEF doc, one, new
<1>7. Listed(one) = {}
  BY <1>4 DEF Listed
<1>8. Listed(new) \subseteq Listed(file)
  BY <1>5, <1>6, <1>7, OverListed
<1>9. /\ Listed(one) \subseteq Listed(q.doc)
      /\ Listed(file') \subseteq Listed(file) \cup Listed(q.doc)
  BY <1>2, <1>7, <1>8
<1> QED BY <1>1, <1>9, HandleCarried

LEMMA SetFavoritesCarried ==
  ASSUME TypeInv, Carried, NEW q \in wire, NEW io \in IO, SetFavorites(q, io)
  PROVE  Carried'
<1> DEFINE doc == Read(io)
           new == [doc EXCEPT !.favs = q.doc.favs]
<1>1. Handle(q, {"star"}, io, "ok", q.doc)
  BY DEF SetFavorites
<1>2. file' = file \/ file' = new
  BY DEF SetFavorites, Save
<1>3. new.rooms = doc.rooms /\ new.favs = q.doc.favs
  <2>1. doc \in Doc /\ q.doc.favs \in SUBSET Id
    BY ReadIn, RequestDoc
  <2> HIDE DEF doc
  <2> QED BY <2>1, FavsReplaced
<1>4. Listed(doc) \subseteq Listed(file)
  BY ReadListed
<1> HIDE DEF doc, new
<1>5. Listed(new) \subseteq Listed(doc) \cup Listed(q.doc)
  BY <1>3 DEF Listed
<1>6. Listed(file') \subseteq Listed(file) \cup Listed(q.doc)
  BY <1>2, <1>4, <1>5
<1> QED BY <1>1, <1>6, HandleCarried

LEMMA RestoreCarried ==
  ASSUME TypeInv, Carried, NEW q \in wire, NEW io \in IO, RestoreGroups(q, io)
  PROVE  Carried'
<1>1. Handle(q, {"restore"}, io, "ok", q.doc)
  BY DEF RestoreGroups
<1>2. Listed(file') \subseteq Listed(file) \cup Listed(q.doc)
  BY DEF RestoreGroups, Save
<1> QED BY <1>1, <1>2, HandleCarried

\* A device found without trouble where it was filed is under its stable id
\* from then on, unless a request under way still has its address.
LEMMA DiscoverCarried ==
  ASSUME TypeInv, HostOK, Carried, NEW d \in Device, NEW io \in IO,
         Discover(d, io)
  PROVE  Carried'
<1> DEFINE clean == /\ io = "fine" /\ host[d] = Ip(d)
                    /\ \A q \in wire : Ip(d) \notin Listed(q.doc)
<1>1. /\ migrated' = migrated \cup {d} /\ wire' = wire
      /\ carried' = IF clean THEN carried \ {d} ELSE carried \cup {d}
  BY DEF Discover
<1>2. file' = file \/ file' = RekeyDoc(file, host[d], d)
  BY DiscoverFile
<1>3. \A e \in Device : Ip(e) \in Listed(file') => Ip(e) \in Listed(file)
  BY <1>2, FileIn, HostIs, RekeySame
<1>4. ASSUME clean PROVE Ip(d) \notin Listed(file')
  <2>1. file' = RekeyDoc(file, host[d], d) /\ host[d] = Ip(d)
    BY <1>4 DEF Discover, Read, Save
  <2> QED BY <2>1, FileIn, HostIs, RekeySame
<1>5. ASSUME NEW e \in migrated' \ carried'
      PROVE  /\ Ip(e) \notin Listed(file')
             /\ \A q \in wire' : Ip(e) \notin Listed(q.doc)
  <2>1. CASE e = d
    <3>1. clean
      BY <1>1, <1>5, <2>1
    <3> QED BY <1>1, <1>4, <2>1, <3>1
  <2>2. CASE e # d
    <3>1. e \in migrated \ carried /\ e \in Device
      BY <1>1, <1>5, <2>2 DEF TypeInv, FileOK
    <3> QED BY <1>1, <1>3, <3>1 DEF Carried
  <2> QED BY <2>1, <2>2
<1> QED BY <1>5 DEF Carried

LEMMA LoseCarried ==
  ASSUME TypeInv, Carried, NEW q \in wire, Lose(q)
  PROVE  Carried'
<1>1. UNCHANGED <<file, migrated, carried>>
  BY DEF Lose, server
<1>2. \A n \in wire' \ wire : n.doc = q.doc
  <2>1. q \in Requests
    BY RequestDoc
  <2> QED BY <2>1 DEF Lose, Requests
<1> QED BY <1>1, <1>2, CarriedKept DEF Known

LEMMA CarriedNext ==
  ASSUME TypeInv, HostOK, Carried, [Next]_vars
  PROVE  Carried'
<1>0. Handled \subseteq Device
  BY BoundsAssumption
<1>1. CASE Click
  <2>1. ASSUME NEW t \in Tab, Reload(t) PROVE Carried'
    BY <2>1, CarriedQuiet DEF Reload, server
  <2>2. ASSUME NEW t \in Tab, NEW d \in Device, NEW to, AssignDevice(t, d, to)
        PROVE  Carried'
    BY <2>2, AssignIs, EditCarried
  <2>3. ASSUME NEW t \in Tab, NEW r, DeleteRoom(t, r) \/ RenameRoom(t, r)
        PROVE  Carried'
    BY <2>3, EditCarried DEF DeleteRoom, RenameRoom
  <2>4. ASSUME NEW t \in Tab, NEW d, CreateRoom(t) \/ ToggleFavorite(t, d)
        PROVE  Carried'
    BY <2>4, EditCarried DEF CreateRoom, ToggleFavorite
  <2> QED BY <1>0, <1>1, <2>1, <2>2, <2>3, <2>4, ConfirmCarried DEF Click
<1>2. CASE Serve
  BY <1>2, UpdateCarried, DeleteGroupCarried, CreateGroupCarried,
     SetFavoritesCarried, RestoreCarried DEF Serve
<1>3. CASE Background
  <2>1. CASE \E d \in Handled, io \in IO : Discover(d, io)
    BY <1>0, <2>1, DiscoverCarried
  <2>2. CASE ~\E d \in Handled, io \in IO : Discover(d, io)
    <3>1. UNCHANGED <<file, wire, carried>> /\ migrated' \subseteq migrated
      BY <1>3, <2>2 DEF Background, ReadPart, Loaded, LoadFails, Download,
         Move, Restart, server, history
    <3> QED BY <3>1, CarriedQuiet
  <2> QED BY <2>1, <2>2
<1>4. CASE \E q \in wire : AnswerOk(q) \/ AnswerFailed(q) \/ Lose(q)
  <2>1. ASSUME NEW q \in wire, AnswerOk(q) \/ AnswerFailed(q) PROVE Carried'
    <3>1. UNCHANGED <<file, migrated, carried>> /\ wire' \subseteq wire
      BY <2>1 DEF AnswerOk, AnswerFailed, server, history
    <3> QED BY <3>1, CarriedQuiet
  <2> QED BY <1>4, <2>1, LoseCarried
<1>5. CASE UNCHANGED vars
  BY <1>5, CarriedQuiet DEF vars
<1> QED BY <1>1, <1>2, <1>3, <1>4, <1>5 DEF Next

-----------------------------------------------------------------------------
(* Edits settle                                                            *)

LEMMA SettleInit == Init => SettleInv
<1> SUFFICES ASSUME Init PROVE SettleInv
  OBVIOUS
<1>1. wire = {} /\ migrated = {} /\ file = InitFile
      /\ wish = WishOf(InitFile)
  BY DEF Init
<1>2. Carried /\ Apart /\ Means
  BY <1>1 DEF Carried, Apart, Means
<1>3. Kept
  <2>1. \A d \in Device : wish.room[d] = MeantRooms(file, d)
    BY <1>1 DEF WishOf
  <2>2. wish.star = Meant(file.favs)
    BY <1>1 DEF WishOf
  <2> QED BY <2>1, <2>2 DEF Kept, StarKept, RoomKept
<1> QED BY <1>2, <1>3 DEF SettleInv, Agreed

LEMMA SettleNext ==
  TypeInv /\ HostOK /\ SettleInv /\ [Next]_vars => SettleInv'
<1> SUFFICES ASSUME TypeInv, HostOK, SettleInv, [Next]_vars PROVE SettleInv'
  OBVIOUS
<1>1. Carried'
  BY CarriedNext DEF SettleInv
<1>2. ~muddled' => Agreed'
  BY AgreedNext DEF SettleInv
<1> QED BY <1>1, <1>2 DEF SettleInv

\* What Kept says of a subject no request is about.
LEMMA RoomSettled ==
  ASSUME TypeInv, Kept, NEW d \in Device, <<"room", d>> \notin doubt,
         ~Awaited(<<"room", d>>)
  PROVE  MeantRooms(file, d) = wish.room[d]
<1>1. \A r \in RoomId : ~\E q \in wire : Decides(q, d, r)
  BY DEF Awaited, Decides
<1>2. \A r \in RoomId : r \in MeantRooms(file, d) <=> r \in wish.room[d]
  BY <1>1 DEF Kept, RoomKept
<1>3. MeantRooms(file, d) \subseteq RoomId
  BY FileIn DEF MeantRooms
<1>4. wish.room[d] \subseteq RoomId
  BY DEF TypeInv, HistoryOK, WishOK
<1> QED BY <1>2, <1>3, <1>4

LEMMA StarSettled ==
  ASSUME Kept, NEW d \in Device, <<"star", d>> \notin doubt,
         ~Awaited(<<"star", d>>)
  PROVE  d \in Meant(file.favs) <=> d \in wish.star
  BY DEF Kept, StarKept, Awaited

\* A device that is nowhere listed by its address is where its id is.
LEMMA OnlyTheId ==
  ASSUME Carried, NEW d \in Device
  PROVE  RoomsOf(d) = MeantRooms(file, d)
         /\ (Starred(d) <=> d \in Meant(file.favs))
<1>1. CASE d \in migrated \ carried
  <2>1. /\ Ip(d) \notin file.favs
        /\ \A r \in DOMAIN file.rooms : Ip(d) \notin file.rooms[r]
    BY <1>1 DEF Carried, Listed
  <2>2. \A r \in DOMAIN file.rooms :
          d \in Meant(file.rooms[r]) <=> d \in file.rooms[r]
    BY <2>1 DEF Meant
  <2>3. d \in Meant(file.favs) <=> d \in file.favs
    BY <2>1 DEF Meant
  <2> QED BY <1>1, <2>2, <2>3 DEF RoomsOf, Starred, MeantRooms
<1>2. CASE d \notin migrated \ carried
  BY <1>2 DEF RoomsOf, Starred
<1> QED BY <1>1, <1>2

LEMMA SettleImplies == TypeInv /\ SettleInv => EditsSettle
<1> SUFFICES ASSUME TypeInv, SettleInv, ~muddled, NEW d \in Device
             PROVE  /\ <<"room", d>> \notin doubt /\ ~Awaited(<<"room", d>>)
                         => RoomsOf(d) = wish.room[d]
                    /\ <<"star", d>> \notin doubt /\ ~Awaited(<<"star", d>>)
                         => (Starred(d) <=> d \in wish.star)
  BY DEF EditsSettle
<1>1. Carried /\ Kept
  BY DEF SettleInv, Agreed
<1> QED BY <1>1, OnlyTheId, RoomSettled, StarSettled

\* Undisturbed edits settle: whatever tabs, discovery, restores, lost messages,
\* storage errors and DHCP moves interleave, as long as no edit was built on a
\* stale view or met another one, the file has every device that no fault has
\* hit, no mistaken discovery and no request is about in the room, and with the
\* star, the user last gave it.
THEOREM EditsSettleHolds == Spec => []EditsSettle
<1>1. Spec => []SettleInv
  BY SettleInit, SettleNext, TypeInvariance, HostInvariance, PTL DEF Spec
<1> QED BY <1>1, SettleImplies, TypeInvariance, PTL

-----------------------------------------------------------------------------
(* What the tabs show                                                      *)

\* Nothing went wrong so far.
Calm == ~muddled /\ faults = 0

\* A request touches what it is about, and it will be answered: the room it
\* names is there until it is served.
Named == {"update", "rename", "delete"}
Aimed(q) ==
  /\ q.at # "fail"
  /\ q.act \in Named =>
       \E r \in RoomId : /\ DOMAIN q.doc.rooms = {r} /\ r \in q.touch
                         /\ q.at = "sent" => r \in DOMAIN file.rooms
  /\ q.act = "star" => "favs" \in q.touch
  /\ q.act = "restore" =>
       q.touch = Place /\ \A p \in Place : last[p] = NoTab
Aims == \A q \in wire : Aimed(q)

\* Tabs know rooms that were handed out; a tab with an open edit has loaded, and
\* its requests bear the number of the edit.
Handed == \A t \in Tab : /\ DOMAIN view[t].rooms \subseteq used
                         /\ DOMAIN load[t].got.rooms \subseteq used
Numbered ==
  /\ \A q \in wire, e \in pending : e.op = q.op => e.tab = q.tab
  /\ \A q \in wire : q.op <= ops
  /\ \A e \in pending : load[e.tab].left = {}

\* A room just created is unknown to the tab that still waits for it.
Created(q) == q.act = "create" /\ q.at = "ok"
NewRoom(q) ==
  /\ DOMAIN q.doc.rooms \subseteq used
  /\ Settled(q) # {} =>
       \A r \in DOMAIN q.doc.rooms : ~InView(q.tab, r) /\ last[r] # q.tab
NewRooms ==
  /\ \A q \in wire : Created(q) => NewRoom(q)
  /\ \A q, o \in wire : Created(q) /\ Created(o) /\ q # o =>
       DOMAIN q.doc.rooms \cap DOMAIN o.doc.rooms = {}

\* Two documents have the same at place p.
SameAt(p, doc, other) ==
  IF p = "favs" THEN doc.favs = other.favs
  ELSE /\ p \in DOMAIN doc.rooms <=> p \in DOMAIN other.rooms
       /\ p \in DOMAIN doc.rooms => doc.rooms[p] = other.rooms[p]

\* A request changes place p, and v has already what it asks for there.
About(act, doc, p) == \/ act \in {"update", "delete"} /\ p \in DOMAIN doc.rooms
                      \/ act = "star" /\ p = "favs"
Fits(v, act, doc, p) == IF act = "delete" THEN p \notin DOMAIN v.rooms
                        ELSE SameAt(p, v, doc)

\* The tab that last edited place p shows what its requests ask for; when none
\* of them is still to be served, what the file holds.
ShownAt(p) ==
  /\ load[last[p]].left = {}
  /\ p # "favs" => p \in used
  /\ \A q \in wire : About(q.act, q.doc, p) =>
       q.tab = last[p] /\ Fits(view[q.tab], q.act, q.doc, p)
  /\ \/ \E q \in wire : About(q.act, q.doc, p) /\ q.at = "sent"
     \/ SameAt(p, view[last[p]], file)
Shown == \A p \in Place : last[p] # NoTab => ShownAt(p)

ViewInv == Aims /\ Handed /\ Numbered /\ NewRooms /\ Shown
SeenInv == Calm => ViewInv

LEMMA SameAtTrans ==
  ASSUME NEW p, NEW a, NEW b, NEW c, SameAt(p, a, b), SameAt(p, b, c)
  PROVE  SameAt(p, a, c)
<1>1. CASE p = "favs"
  BY <1>1 DEF SameAt
<1>2. CASE p # "favs"
  BY <1>2 DEF SameAt
<1> QED BY <1>1, <1>2

LEMMA SameAtSym ==
  ASSUME NEW p, NEW a, NEW b, SameAt(p, a, b)
  PROVE  SameAt(p, b, a)
<1>1. CASE p = "favs"
  BY <1>1 DEF SameAt
<1>2. CASE p # "favs"
  BY <1>2 DEF SameAt
<1> QED BY <1>1, <1>2

LEMMA SameAtSelf == ASSUME NEW p, NEW a PROVE SameAt(p, a, a)
  BY DEF SameAt

LEMMA FitsSame ==
  ASSUME NEW p, p = "favs" \/ p \in RoomId, NEW v, NEW w, SameAt(p, w, v),
         NEW act, NEW doc, About(act, doc, p),
         DOMAIN doc.rooms \subseteq RoomId,
         Fits(v, act, doc, p)
  PROVE  Fits(w, act, doc, p)
<1>1. CASE act = "delete"
  <2>1. p \in RoomId
    BY <1>1 DEF About
  <2>2. p # "favs"
    BY <2>1, FavsAssumption
  <2> QED BY <1>1, <2>2 DEF Fits, SameAt
<1>2. CASE act # "delete"
  BY <1>2, SameAtTrans DEF Fits
<1> QED BY <1>1, <1>2

LEMMA AboutTouched ==
  ASSUME NEW q, Aimed(q), NEW p, About(q.act, q.doc, p)
  PROVE  p \in q.touch
  BY DEF Aimed, About, Named

LEMMA PlaceIs == ASSUME NEW p \in Place PROVE p = "favs" \/ p \in RoomId
  BY DEF Place

\* The requests and the open edit of an edit.
LEMMA EditNumbers ==
  ASSUME TypeInv, NEW t \in Tab, NEW of, NEW new, NEW msgs, NEW subj, NEW touch,
         NEW sound, Edit(t, of, new, msgs, subj, touch, sound)
  PROVE  /\ \A q \in wire' \ wire : q.op = ops + 1 /\ q.tab = t
         /\ \A e \in pending' \ pending : e.op = ops + 1 /\ e.tab = t
         /\ pending \subseteq pending' /\ ops' = ops + 1
         /\ view'[t] = new /\ \A u \in Tab \ {t} : view'[u] = view[u]
         /\ \A p \in Place : last'[p] = IF p \in touch THEN t ELSE last[p]
         /\ UNCHANGED <<used, load, faults>>
<1>1. \A q \in wire' \ wire : q.op = ops + 1 /\ q.tab = t
  BY DEF Edit
<1>2. \A e \in pending' \ pending : e.op = ops + 1 /\ e.tab = t
  BY DEF Edit
<1>3. view' = [view EXCEPT ![t] = new]
  BY DEF Edit
<1>4. view'[t] = new /\ \A u \in Tab \ {t} : view'[u] = view[u]
  BY <1>3 DEF TypeInv, TabsOK
<1>5. /\ pending \subseteq pending' /\ ops' = ops + 1
      /\ \A p \in Place : last'[p] = IF p \in touch THEN t ELSE last[p]
      /\ UNCHANGED <<used, load, faults>>
  BY DEF Edit, server
<1> QED BY <1>1, <1>2, <1>4, <1>5

\* The requests of an edit ask for what the tab then shows, at the places it
\* touches; nothing else changes in the tab.
Asks(msgs, touch, new) ==
  /\ \A m \in msgs :
       /\ m[1] # "restore"
       /\ m[1] = "star" => "favs" \in touch
       /\ m[1] \in Named =>
            \E r \in RoomId : /\ DOMAIN m[2].rooms = {r} /\ r \in touch
                              /\ r \in DOMAIN file.rooms
       /\ \A p \in touch : About(m[1], m[2], p) => Fits(new, m[1], m[2], p)
  /\ \A p \in touch : \/ \E m \in msgs : About(m[1], m[2], p)
                      \/ SameAt(p, new, file)

LEMMA EditSees ==
  ASSUME TypeInv, ViewInv, ~muddled', NEW t \in Tab, NEW of, NEW new, NEW msgs,
         NEW subj, NEW touch \in SUBSET Place, NEW sound,
         Edit(t, of, new, msgs, subj, touch, sound), Asks(msgs, touch, new),
         DOMAIN new.rooms \subseteq DOMAIN view[t].rooms,
         touch \subseteq DOMAIN view[t].rooms \cup {"favs"},
         \A p \in Place \ touch : SameAt(p, new, view[t])
  PROVE  ViewInv'
<1>1. /\ Sends(msgs, subj, touch) /\ ~Busy(touch) /\ load[t].left = {}
      /\ file' = file
  BY EditSends
<1>2. /\ \A q \in wire' \ wire : q.op = ops + 1 /\ q.tab = t
      /\ \A e \in pending' \ pending : e.op = ops + 1 /\ e.tab = t
      /\ pending \subseteq pending' /\ ops' = ops + 1
      /\ view'[t] = new /\ \A u \in Tab \ {t} : view'[u] = view[u]
      /\ \A p \in Place : last'[p] = IF p \in touch THEN t ELSE last[p]
      /\ UNCHANGED <<used, load, faults>>
  BY EditNumbers
<1>3. Aims /\ Handed /\ Numbered /\ NewRooms /\ Shown
  BY DEF ViewInv
<1>4. wire \subseteq wire'
      /\ \A q \in wire' \ wire :
           \E m \in msgs : /\ q.act = m[1] /\ q.doc = m[2] /\ q.at = "sent"
                           /\ q.touch = touch
  BY <1>1 DEF Sends
<1>5. \A q \in wire : q.touch \cap touch = {}
  BY <1>1 DEF Busy
<1>6. Aims'
  <2>1. ASSUME NEW q \in wire PROVE Aimed(q)'
    <3>1. Aimed(q)
      BY <1>3 DEF Aims
    <3>2. ASSUME q.act = "restore"
          PROVE  q.touch = Place /\ \A p \in Place : last'[p] = NoTab
      <4>1. q.touch = Place /\ \A p \in Place : last[p] = NoTab
        BY <3>1, <3>2 DEF Aimed
      <4>2. touch = {}
        BY <1>5, <4>1
      <4> QED BY <1>2, <4>1, <4>2
    <3> QED BY <1>1, <3>1, <3>2 DEF Aimed
  <2>2. ASSUME NEW q \in wire' \ wire PROVE Aimed(q)'
    <3>1. PICK m \in msgs : /\ q.act = m[1] /\ q.doc = m[2] /\ q.at = "sent"
                            /\ q.touch = touch
      BY <1>4
    <3>2. /\ m[1] # "restore"
          /\ m[1] = "star" => "favs" \in touch
          /\ m[1] \in Named =>
               \E r \in RoomId : /\ DOMAIN m[2].rooms = {r} /\ r \in touch
                                 /\ r \in DOMAIN file.rooms
      BY DEF Asks
    <3> QED BY <1>1, <3>1, <3>2 DEF Aimed
  <2> QED BY <2>1, <2>2 DEF Aims
<1>7. Handed'
  <2>1. \A u \in Tab : DOMAIN view[u].rooms \subseteq used
                       /\ DOMAIN load[u].got.rooms \subseteq used
    BY <1>3 DEF Handed
  <2>2. \A u \in Tab : DOMAIN view'[u].rooms \subseteq DOMAIN view[u].rooms
    BY <1>2
  <2> QED BY <1>2, <2>1, <2>2 DEF Handed
<1>8. /\ \A q \in wire : q.op \in Nat /\ q.op <= ops /\ q.op # ops + 1
      /\ \A e \in pending : e.op # ops + 1 /\ e.tab \in Tab
      /\ ops \in Nat
  <2>1. \A q \in wire : q.op \in Nat /\ q.op <= ops
    BY <1>3, BoundsAssumption DEF Numbered, TypeInv, WireOK, Requests, Op
  <2>2. ops \in Nat
    BY BoundsAssumption DEF TypeInv, CountOK
  <2>3. \A q \in wire : q.op # ops + 1
    BY <2>1, <2>2
  <2>4. \A e \in pending : e.tab \in Tab /\ \E q \in wire : q.op = e.op
    BY DEF TypeInv, WireOK, Edits
  <2>5. \A e \in pending : e.op # ops + 1
    BY <2>3, <2>4
  <2> QED BY <2>1, <2>2, <2>3, <2>4, <2>5
<1>9. Numbered'
  <2>1. ASSUME NEW q \in wire', NEW e \in pending', e.op = q.op
        PROVE  e.tab = q.tab
    BY <1>2, <1>3, <1>8, <2>1 DEF Numbered
  <2>2. \A q \in wire' : q.op <= ops'
    BY <1>2, <1>8
  <2>3. \A e \in pending' : load'[e.tab].left = {}
    BY <1>1, <1>2, <1>3 DEF Numbered
  <2> QED BY <2>1, <2>2, <2>3 DEF Numbered
<1>10. NewRooms'
  <2>1. \A q \in wire' : Created(q) => q \in wire
    BY <1>4 DEF Created
  <2>2. ASSUME NEW q \in wire, Created(q) PROVE NewRoom(q)'
    <3>1. NewRoom(q) /\ q.tab \in Tab
      BY <1>3, <2>2, RequestDoc DEF NewRooms, Requests
    <3>2. Settled(q)' # {} => Settled(q) # {}
      BY <1>2, <1>8 DEF Settled
    <3>3. ASSUME NEW r \in DOMAIN q.doc.rooms, Settled(q) # {}
          PROVE  ~InView(q.tab, r)' /\ last'[r] # q.tab
      <4>1. r \in RoomId /\ r \in Place /\ r # "favs"
        BY RequestDoc, MapOut, RoomPlace, FavsAssumption
      <4>2. ~InView(q.tab, r) /\ last[r] # q.tab
        BY <3>1, <3>3 DEF NewRoom
      <4>3. DOMAIN view'[q.tab].rooms \subseteq DOMAIN view[q.tab].rooms
        BY <1>2, <3>1
      <4>4. q.tab = t => r \notin touch
        BY <4>1, <4>2 DEF InView
      <4> QED BY <1>2, <4>1, <4>2, <4>3, <4>4 DEF InView
    <3> QED BY <1>2, <3>1, <3>2, <3>3 DEF NewRoom
  <2>3. \A q, o \in wire : Created(q) /\ Created(o) /\ q # o =>
          DOMAIN q.doc.rooms \cap DOMAIN o.doc.rooms = {}
    BY <1>3 DEF NewRooms
  <2>4. \A q \in wire' : Created(q)' => Created(q)
    BY DEF Created
  <2> QED BY <2>1, <2>2, <2>3, <2>4 DEF NewRooms
<1>11. Shown'
  <2> SUFFICES ASSUME NEW p \in Place, last'[p] # NoTab PROVE ShownAt(p)'
    BY DEF Shown
  <2>1. CASE p \in touch
    <3>1. last'[p] = t /\ load' = load /\ load[t].left = {} /\ view'[t] = new
      BY <1>1, <1>2, <2>1
    <3>2. p # "favs" => p \in used'
      BY <1>2, <1>3, <2>1 DEF Handed
    <3>3. ASSUME NEW q \in wire', About(q.act, q.doc, p)
          PROVE  q.tab = t /\ Fits(new, q.act, q.doc, p)
      <4>1. q \notin wire
        <5>1. q \in wire => p \in q.touch
          BY <1>3, <3>3, AboutTouched DEF Aims
        <5> QED BY <1>5, <2>1, <5>1
      <4>2. PICK m \in msgs : q.act = m[1] /\ q.doc = m[2]
        BY <1>4, <4>1
      <4>3. Fits(new, m[1], m[2], p)
        BY <2>1, <3>3, <4>2 DEF Asks
      <4> QED BY <1>2, <4>1, <4>2, <4>3
    <3>4. \/ \E q \in wire' : About(q.act, q.doc, p) /\ q.at = "sent"
          \/ SameAt(p, new, file)
      <4>1. CASE \E m \in msgs : About(m[1], m[2], p)
        BY <1>1, <4>1 DEF Sends
      <4>2. CASE ~\E m \in msgs : About(m[1], m[2], p)
        BY <2>1, <4>2 DEF Asks
      <4> QED BY <4>1, <4>2
    <3> QED BY <1>1, <3>1, <3>2, <3>3, <3>4 DEF ShownAt
  <2>2. CASE p \notin touch
    <3>1. last'[p] = last[p] /\ ShownAt(p) /\ last[p] \in Tab
      <4>1. last'[p] = last[p]
        BY <1>2, <2>2
      <4> QED BY <1>3, <4>1 DEF Shown, TypeInv, HistoryOK
    <3>2. \A u \in Tab : SameAt(p, view'[u], view[u])
      BY <1>2, <2>2, SameAtSelf
    <3>3. ASSUME NEW q \in wire', About(q.act, q.doc, p)
          PROVE  q \in wire
      <4>1. ASSUME q \notin wire PROVE FALSE
        <5>1. PICK m \in msgs : q.act = m[1] /\ q.doc = m[2]
          BY <1>4, <4>1
        <5> QED BY <2>2, <3>3, <5>1 DEF Asks, About, Named
      <4> QED BY <4>1
    <3>4. ASSUME NEW q \in wire', About(q.act, q.doc, p)
          PROVE  q.tab = last[p] /\ Fits(view'[q.tab], q.act, q.doc, p)
      <4>1. q \in wire
        BY <3>3, <3>4
      <4>2. q.tab = last[p] /\ Fits(view[q.tab], q.act, q.doc, p)
        BY <3>1, <3>4, <4>1 DEF ShownAt
      <4>3. DOMAIN q.doc.rooms \subseteq RoomId
        BY <4>1, RequestDoc, MapOut
      <4> QED BY <3>1, <3>2, <3>4, <4>2, <4>3, FitsSame, PlaceIs
    <3>5. \/ \E q \in wire' : About(q.act, q.doc, p) /\ q.at = "sent"
          \/ SameAt(p, view'[last[p]], file)
      <4>1. CASE \E q \in wire : About(q.act, q.doc, p) /\ q.at = "sent"
        BY <1>4, <4>1
      <4>2. CASE SameAt(p, view[last[p]], file)
        BY <3>1, <3>2, <4>2, SameAtTrans
      <4> QED BY <3>1, <4>1, <4>2 DEF ShownAt
    <3> QED BY <1>1, <1>2, <3>1, <3>4, <3>5 DEF ShownAt
  <2> QED BY <2>1, <2>2
<1> QED BY <1>6, <1>7, <1>9, <1>10, <1>11 DEF ViewInv

\* Tab and file agree on a room an edit may touch.
LEMMA SameRoomAt ==
  ASSUME TypeInv, NEW t \in Tab, NEW r, SameRoom(t, r)
  PROVE  /\ r \in DOMAIN view[t].rooms /\ r \in DOMAIN file.rooms
         /\ r \in RoomId /\ r \in Place /\ r # "favs"
         /\ view[t].rooms[r] = file.rooms[r]
<1>1. /\ r \in DOMAIN view[t].rooms /\ r \in DOMAIN file.rooms
      /\ view[t].rooms[r] = file.rooms[r]
  BY DEF SameRoom, InView
<1>2. r \in RoomId
  BY <1>1, ViewIn
<1> QED BY <1>1, <1>2, RoomPlace, FavsAssumption

LEMMA AssignSees ==
  ASSUME TypeInv, ViewInv, ~muddled', NEW t \in Tab, NEW d \in Device,
         NEW to \in RoomId \cup {NoRoom}, AssignDevice(t, d, to)
  PROVE  ViewInv'
<1>1. PICK current :
    /\ IF Here(t, d) = {} THEN current = NoRoom ELSE current \in Here(t, d)
    /\ to \in DOMAIN view[t].rooms \cup {NoRoom} /\ to # current
    /\ Edit(t, "rooms",
            [view[t] EXCEPT !.rooms = Moved(t, d, current, to)],
            {<<"update", Fragment(r, Moved(t, d, current, to)[r])>> :
               r \in Changed(t, d, current, to)},
            {<<"room", d>>}, Both(current, to),
            /\ \A r \in Both(current, to) :
                 SameRoom(t, r) /\ Ip(d) \notin Moved(t, d, current, to)[r]
            /\ MeantRooms(file, d) \subseteq Both(current, to))
    /\ wish' = [wish EXCEPT !.room[d] = {to} \ {NoRoom}]
  BY AssignIs
<1> DEFINE new == [view[t] EXCEPT !.rooms = Moved(t, d, current, to)]
           after(r) == Moved(t, d, current, to)[r]
           msgs == {<<"update", Fragment(r, after(r))>> :
                      r \in Changed(t, d, current, to)}
           touch == Both(current, to)
           subj == {<<"room", d>>}
           sound == /\ \A r \in touch : SameRoom(t, r) /\ Ip(d) \notin after(r)
                    /\ MeantRooms(file, d) \subseteq touch
<1>2. Edit(t, "rooms", new, msgs, subj, touch, sound)
  BY <1>1
<1>3. sound
  <2> HIDE DEF new, msgs, subj, touch, sound
  <2> QED BY <1>2, EditSends
<1>4. /\ new.rooms = Moved(t, d, current, to) /\ new.favs = view[t].favs
      /\ DOMAIN Moved(t, d, current, to) = DOMAIN view[t].rooms
  BY ViewIn, MovedIn, RoomsReplaced
<1>5. \A r \in touch : /\ r \in DOMAIN view[t].rooms /\ r \in DOMAIN file.rooms
                       /\ r \in RoomId /\ r \in Place /\ r # "favs"
                       /\ view[t].rooms[r] = file.rooms[r]
                       /\ after(r) \in SUBSET Id
  BY <1>3, SameRoomAt, MovedIn
<1>6. \A r \in DOMAIN view[t].rooms \ touch : after(r) = view[t].rooms[r]
  <2>1. ASSUME NEW r \in DOMAIN view[t].rooms, r \notin touch
        PROVE  r # current /\ r # to
    <3>1. r # NoRoom
      BY ViewIn, NoRoomAssumption
    <3> QED BY <2>1, <3>1 DEF Both
  <2>2. \A r \in DOMAIN view[t].rooms :
          after(r) = IF r = current THEN view[t].rooms[r] \ {d}
                     ELSE IF r = to THEN view[t].rooms[r] \cup {d}
                     ELSE view[t].rooms[r]
    BY DEF Moved
  <2> HIDE DEF after, touch
  <2> QED BY <2>1, <2>2
<1>7. /\ Changed(t, d, current, to) \subseteq touch
      /\ \A r \in touch \ Changed(t, d, current, to) :
           after(r) = view[t].rooms[r]
  BY <1>5, <1>6 DEF Changed
<1>8. ASSUME NEW r \in Changed(t, d, current, to)
      PROVE  /\ DOMAIN Fragment(r, after(r)).rooms = {r}
             /\ SameAt(r, new, Fragment(r, after(r)))
  <2>1. r \in touch /\ r \in RoomId /\ r # "favs" /\ after(r) \in SUBSET Id
        /\ r \in DOMAIN view[t].rooms
    BY <1>5, <1>7
  <2>2. /\ DOMAIN Fragment(r, after(r)).rooms = {r}
        /\ Fragment(r, after(r)).rooms[r] = after(r)
    <3> HIDE DEF after
    <3> QED BY <2>1, FragmentIn
  <2>3. r \in DOMAIN new.rooms /\ new.rooms[r] = after(r)
    BY <1>4, <2>1
  <2> HIDE DEF new, after
  <2> QED BY <2>1, <2>2, <2>3 DEF SameAt
<1>9. Asks(msgs, touch, new)
  <2>1. ASSUME NEW m \in msgs
        PROVE  /\ m[1] # "restore"
               /\ m[1] = "star" => "favs" \in touch
               /\ m[1] \in Named =>
                    \E r \in RoomId :
                      /\ DOMAIN m[2].rooms = {r} /\ r \in touch
                      /\ r \in DOMAIN file.rooms
               /\ \A p \in touch :
                    About(m[1], m[2], p) => Fits(new, m[1], m[2], p)
    <3>1. PICK r \in Changed(t, d, current, to) :
            m[1] = "update" /\ m[2] = Fragment(r, after(r))
      OBVIOUS
    <3> HIDE DEF msgs, touch, after, new
    <3> QED BY <1>5, <1>7, <1>8, <3>1 DEF About, Fits
  <2>2. ASSUME NEW p \in touch
        PROVE  \/ \E m \in msgs : About(m[1], m[2], p)
               \/ SameAt(p, new, file)
    <3>1. CASE p \in Changed(t, d, current, to)
      <4>1. /\ <<"update", Fragment(p, after(p))>> \in msgs
            /\ About("update", Fragment(p, after(p)), p)
        BY <1>8, <3>1 DEF About
      <4> HIDE DEF msgs, after
      <4> QED BY <4>1
    <3>2. CASE p \notin Changed(t, d, current, to)
      <4>1. p \in DOMAIN new.rooms /\ new.rooms[p] = view[t].rooms[p]
        BY <1>4, <1>5, <1>7, <3>2
      <4> HIDE DEF new, touch
      <4> QED BY <1>5, <4>1 DEF SameAt
    <3> QED BY <3>1, <3>2
  <2> HIDE DEF msgs, touch, new
  <2> QED BY <2>1, <2>2 DEF Asks
<1>10. \A p \in Place \ touch : SameAt(p, new, view[t])
  <2> HIDE DEF new, touch
  <2> QED BY <1>4, <1>6 DEF SameAt
<1>11. touch \in SUBSET Place
  BY <1>5
<1> HIDE DEF new, msgs, touch, subj, sound
<1> QED BY <1>2, <1>4, <1>5, <1>9, <1>10, <1>11, EditSees

LEMMA DeleteSees ==
  ASSUME TypeInv, ViewInv, ~muddled', NEW t \in Tab, NEW r \in RoomId,
         DeleteRoom(t, r)
  PROVE  ViewInv'
<1> DEFINE rooms == [x \in DOMAIN view[t].rooms \ {r} |-> view[t].rooms[x]]
           new == [view[t] EXCEPT !.rooms = rooms]
           doc == Fragment(r, {})
           msgs == {<<"delete", doc>>}
           subj == {<<"room", d>> : d \in Meant(view[t].rooms[r])}
           sound == SameRoom(t, r)
<1>1. Edit(t, "rooms", new, msgs, subj, {r}, sound)
  BY DEF DeleteRoom
<1>2. sound
  <2> HIDE DEF new, msgs, subj, sound
  <2> QED BY <1>1, EditSends
<1>3. new.rooms = rooms /\ new.favs = view[t].favs
  <2>1. rooms \in Maps
    BY ViewIn, SomeRooms
  <2> HIDE DEF rooms
  <2> QED BY <2>1, ViewIn, RoomsReplaced
<1>4. /\ DOMAIN new.rooms = DOMAIN view[t].rooms \ {r}
      /\ \A x \in DOMAIN new.rooms : new.rooms[x] = view[t].rooms[x]
  BY <1>3
<1>5. DOMAIN doc.rooms = {r}
  BY FragmentIn DEF Fragment, EmptyDoc
<1>6. Asks(msgs, {r}, new)
  <2>1. r \in DOMAIN file.rooms
    BY <1>2, SameRoomAt
  <2>2. \A m \in msgs : m[1] = "delete" /\ m[2] = doc
    OBVIOUS
  <2>3. \E m \in msgs : m[1] = "delete" /\ m[2] = doc
    OBVIOUS
  <2> HIDE DEF msgs, new, doc
  <2> QED BY <1>4, <1>5, <2>1, <2>2, <2>3 DEF Asks, About, Fits
<1>7. \A p \in Place \ {r} : SameAt(p, new, view[t])
  <2> HIDE DEF new
  <2> QED BY <1>3, <1>4 DEF SameAt
<1>8. {r} \in SUBSET Place /\ {r} \subseteq DOMAIN view[t].rooms
  BY <1>2, SameRoomAt
<1> HIDE DEF new, msgs, subj, sound
<1> QED BY <1>1, <1>4, <1>6, <1>7, <1>8, EditSees

LEMMA RenameSees ==
  ASSUME TypeInv, ViewInv, ~muddled', NEW t \in Tab, NEW r \in RoomId,
         RenameRoom(t, r)
  PROVE  ViewInv'
<1> DEFINE doc == Fragment(r, {})
           msgs == {<<"rename", doc>>}
           sound == SameRoom(t, r)
<1>1. Edit(t, "rooms", view[t], msgs, {}, {r}, sound)
  BY DEF RenameRoom
<1>2. sound
  <2> HIDE DEF msgs, sound
  <2> QED BY <1>1, EditSends
<1>3. DOMAIN doc.rooms = {r}
  BY FragmentIn DEF Fragment, EmptyDoc
<1>4. /\ {r} \in SUBSET Place /\ {r} \subseteq DOMAIN view[t].rooms
      /\ r \in DOMAIN file.rooms /\ SameAt(r, view[t], file)
  BY <1>2, SameRoomAt DEF SameAt
<1>5. Asks(msgs, {r}, view[t])
  <2>1. \A m \in msgs : m[1] = "rename" /\ m[2] = doc
    OBVIOUS
  <2> HIDE DEF msgs, doc
  <2> QED BY <1>3, <1>4, <2>1 DEF Asks, About
<1> HIDE DEF msgs, sound
<1> QED BY <1>1, <1>4, <1>5, SameAtSelf, EditSees

LEMMA CreateSees ==
  ASSUME TypeInv, ViewInv, ~muddled', NEW t \in Tab, CreateRoom(t)
  PROVE  ViewInv'
<1> DEFINE msgs == {<<"create", EmptyDoc>>}
<1>1. Edit(t, "rooms", view[t], msgs, {}, {}, TRUE)
  BY DEF CreateRoom
<1>2. Asks(msgs, {}, view[t]) /\ {} \in SUBSET Place
  BY DEF Asks, Named
<1> HIDE DEF msgs
<1> QED BY <1>1, <1>2, SameAtSelf, EditSees

LEMMA ToggleSees ==
  ASSUME TypeInv, ViewInv, ~muddled', NEW t \in Tab, NEW d \in Device,
         ToggleFavorite(t, d)
  PROVE  ViewInv'
<1> DEFINE new == [view[t] EXCEPT !.favs = Stars(t, d)]
           doc == [EmptyDoc EXCEPT !.favs = Stars(t, d)]
           msgs == {<<"star", doc>>}
           sound == view[t].favs = file.favs /\ Ip(d) \notin Stars(t, d)
<1>1. Edit(t, "favs", new, msgs, {<<"star", d>>}, {"favs"}, sound)
  BY DEF ToggleFavorite, Stars
<1>2. /\ doc.favs = Stars(t, d) /\ new.favs = Stars(t, d)
      /\ new.rooms = view[t].rooms
  <2>1. Stars(t, d) \in SUBSET Id
    BY ViewIn, DeviceIds DEF Stars
  <2> QED BY <2>1, EmptyDocIn, ViewIn, FavsReplaced
<1>3. Asks(msgs, {"favs"}, new)
  <2>1. \A m \in msgs : m[1] = "star" /\ m[2] = doc
    OBVIOUS
  <2>2. \E m \in msgs : m[1] = "star" /\ m[2] = doc
    OBVIOUS
  <2> HIDE DEF msgs, new, doc
  <2> QED BY <1>2, <2>1, <2>2 DEF Asks, About, Fits, SameAt, Named
<1>4. \A p \in Place \ {"favs"} : SameAt(p, new, view[t])
  <2> HIDE DEF new
  <2> QED BY <1>2 DEF SameAt
<1>5. {"favs"} \in SUBSET Place
  BY RoomPlace
<1> HIDE DEF new, msgs, sound
<1> QED BY <1>1, <1>2, <1>3, <1>4, <1>5, EditSees

-----------------------------------------------------------------------------
(* What the tabs show while requests are served                            *)

\* Without faults the file behaves.
LEMMA HandleFine ==
  ASSUME TypeInv, Calm', NEW q \in wire, NEW act, NEW io, NEW how, NEW doc,
         Handle(q, act, io, how, doc)
  PROVE  /\ io = "fine" /\ q.act \in act /\ q.at = "sent"
         /\ \E n : /\ wire' = (wire \ {q}) \cup {n}
                   /\ n.op = q.op /\ n.tab = q.tab /\ n.act = q.act
                   /\ n.touch = q.touch /\ n.at = how /\ n.doc = doc
         /\ UNCHANGED <<view, load, pending, ops, last>>
<1> DEFINE n == [q EXCEPT !.at = how, !.doc = doc]
<1>1. q \in Requests
  BY RequestDoc
<1>2. /\ n.op = q.op /\ n.tab = q.tab /\ n.act = q.act
      /\ n.touch = q.touch /\ n.at = how /\ n.doc = doc
  BY <1>1 DEF Requests
<1>3. wire' = (wire \ {q}) \cup {n} /\ q.act \in act /\ q.at = "sent"
      /\ UNCHANGED <<view, load, pending, ops, last>>
  BY DEF Handle
<1>4. io = "fine"
  <2>1. faults' = faults + IF io = "fine" THEN 0 ELSE 1
    BY DEF Handle
  <2>2. faults' = 0 /\ faults \in Nat
    BY BoundsAssumption DEF Calm, TypeInv, CountOK
  <2> QED BY <2>1, <2>2
<1> HIDE DEF n
<1> QED BY <1>2, <1>3, <1>4

\* Serving request q leaves the rooms the others name ...
Spares(q) ==
  \A o \in wire \ {q}, r \in DOMAIN file.rooms :
    o.at = "sent" /\ o.act \in Named /\ r \in o.touch
      => r \in DOMAIN file'.rooms

\* ... and where it is about it puts what a tab shows that has it already, and
\* nothing elsewhere.
Puts(q) ==
  \A p \in Place : last[p] # NoTab =>
    IF About(q.act, q.doc, p)
    THEN Fits(view[q.tab], q.act, q.doc, p) => SameAt(p, view[q.tab], file')
    ELSE SameAt(p, file, file')

LEMMA ServeSees ==
  ASSUME TypeInv, ViewInv, Calm', NEW q \in wire, NEW act, NEW io,
         Handle(q, act, io, "ok", q.doc), "create" \notin act, used' = used,
         Spares(q), Puts(q)
  PROVE  ViewInv'
<1>1. /\ q.act \in act /\ q.at = "sent"
      /\ UNCHANGED <<view, load, pending, ops, last>>
  BY HandleFine
<1>2. PICK n : /\ wire' = (wire \ {q}) \cup {n}
               /\ n.op = q.op /\ n.tab = q.tab /\ n.act = q.act
               /\ n.touch = q.touch /\ n.at = "ok" /\ n.doc = q.doc
  BY HandleFine
<1>3. Aims /\ Handed /\ Numbered /\ NewRooms /\ Shown
  BY DEF ViewInv
<1>4. Aims'
  <2>1. ASSUME NEW o \in wire \ {q} PROVE Aimed(o)'
    <3>1. Aimed(o)
      BY <1>3 DEF Aims
    <3> QED BY <1>1, <3>1 DEF Aimed, Spares
  <2>2. Aimed(n)'
    <3>1. Aimed(q)
      BY <1>3 DEF Aims
    <3> QED BY <1>1, <1>2, <3>1 DEF Aimed
  <2> QED BY <1>2, <2>1, <2>2 DEF Aims
<1>5. Handed'
  BY <1>1, <1>3 DEF Handed
<1>6. Numbered'
  BY <1>1, <1>2, <1>3 DEF Numbered
<1>7. NewRooms'
  <2>1. \A o \in wire' : Created(o) => o \in wire
    BY <1>1, <1>2 DEF Created
  <2>2. ASSUME NEW o \in wire, Created(o) PROVE NewRoom(o)'
    BY <1>1, <1>3, <2>2 DEF NewRooms, NewRoom, Settled, InView
  <2>3. \A o \in wire' : Created(o)' => Created(o)
    BY DEF Created
  <2>4. \A o, p \in wire : Created(o) /\ Created(p) /\ o # p =>
          DOMAIN o.doc.rooms \cap DOMAIN p.doc.rooms = {}
    BY <1>3 DEF NewRooms
  <2> QED BY <2>1, <2>2, <2>3, <2>4 DEF NewRooms
<1>8. Shown'
  <2> SUFFICES ASSUME NEW p \in Place, last[p] # NoTab PROVE ShownAt(p)'
    BY <1>1 DEF Shown
  <2>1. ShownAt(p)
    BY <1>3 DEF Shown
  <2>2. ASSUME NEW o \in wire', About(o.act, o.doc, p)
        PROVE  o.tab = last[p] /\ Fits(view[o.tab], o.act, o.doc, p)
    <3>1. CASE o \in wire
      BY <2>1, <2>2, <3>1 DEF ShownAt
    <3>2. CASE o = n
      BY <1>2, <2>1, <2>2, <3>2 DEF ShownAt
    <3> QED BY <1>2, <3>1, <3>2
  <2>3. \/ \E o \in wire' : About(o.act, o.doc, p) /\ o.at = "sent"
        \/ SameAt(p, view[last[p]], file')
    <3>1. CASE About(q.act, q.doc, p)
      BY <2>1, <3>1 DEF ShownAt, Puts
    <3>2. CASE ~About(q.act, q.doc, p)
      <4>1. CASE \E o \in wire : About(o.act, o.doc, p) /\ o.at = "sent"
        BY <1>2, <3>2, <4>1
      <4>2. CASE SameAt(p, view[last[p]], file)
        <5>1. SameAt(p, file, file')
          BY <3>2 DEF Puts
        <5> QED BY <4>2, <5>1, SameAtTrans
      <4> QED BY <2>1, <4>1, <4>2 DEF ShownAt
    <3> QED BY <3>1, <3>2
  <2> QED BY <1>1, <2>1, <2>2, <2>3 DEF ShownAt
<1> QED BY <1>4, <1>5, <1>6, <1>7, <1>8 DEF ViewInv

LEMMA UpdateSees ==
  ASSUME TypeInv, ViewInv, Calm', NEW q \in wire, NEW io \in IO,
         UpdateGroup(q, io)
  PROVE  ViewInv'
<1> DEFINE doc == Read(io)
           new == [doc EXCEPT !.rooms = Over(q.doc.rooms, @)]
           known == DOMAIN q.doc.rooms \subseteq DOMAIN doc.rooms
           how == IF known THEN "ok" ELSE "fail"
<1>1. /\ Handle(q, {"update", "rename"}, io, how, q.doc)
      /\ IF known /\ q.act = "update" THEN Save(new, io) ELSE UNCHANGED file
      /\ used' = used
  BY DEF UpdateGroup
<1>2. io = "fine" /\ q.act \in {"update", "rename"} /\ q.at = "sent"
  <2> HIDE DEF how, new, known, doc
  <2> QED BY <1>1, HandleFine
<1>3. PICK r \in RoomId : DOMAIN q.doc.rooms = {r} /\ r \in DOMAIN file.rooms
  BY <1>2 DEF ViewInv, Aims, Aimed, Named
<1>4. doc = file /\ known /\ how = "ok"
  BY <1>2, <1>3, FileIn
<1>5. "create" \notin {"update", "rename"}
  OBVIOUS
<1>6. CASE q.act = "rename"
  <2>1. \A p : ~About(q.act, q.doc, p)
    BY <1>6 DEF About
  <2>2. file' = file
    BY <1>1, <1>6
  <2>3. Spares(q) /\ Puts(q)
    BY <2>1, <2>2, SameAtSelf DEF Spares, Puts
  <2> HIDE DEF how, new, known, doc
  <2> QED BY <1>1, <1>4, <1>5, <2>3, ServeSees
<1>7. CASE q.act = "update"
  <2>1. file' = [file EXCEPT !.rooms = Over(q.doc.rooms, file.rooms)]
    BY <1>1, <1>2, <1>4, <1>7 DEF Save
  <2>2. file'.rooms = Over(q.doc.rooms, file.rooms) /\ file'.favs = file.favs
    <3>1. Over(q.doc.rooms, file.rooms) \in Maps
      BY FileIn, RequestDoc, OverIn
    <3> QED BY <2>1, <3>1, FileIn, RoomsReplaced
  <2>3. /\ DOMAIN file'.rooms = DOMAIN file.rooms
        /\ file'.rooms[r] = q.doc.rooms[r]
        /\ \A x \in DOMAIN file.rooms \ {r} : file'.rooms[x] = file.rooms[x]
    BY <1>3, <2>2 DEF Over
  <2>4. r # "favs" /\ \A p : About(q.act, q.doc, p) <=> p = r
    BY <1>3, <1>7, FavsAssumption DEF About
  <2>5. ASSUME NEW p \in Place, p # r PROVE SameAt(p, file, file')
    BY <2>2, <2>3, <2>5 DEF SameAt
  <2>6. Fits(view[q.tab], q.act, q.doc, r) => SameAt(r, view[q.tab], file')
    BY <1>3, <1>7, <2>3, <2>4 DEF Fits, SameAt
  <2>7. Spares(q)
    BY <2>3 DEF Spares
  <2>8. Puts(q)
    BY <2>4, <2>5, <2>6 DEF Puts
  <2> HIDE DEF how, new, known, doc
  <2> QED BY <1>1, <1>4, <1>5, <2>7, <2>8, ServeSees
<1> QED BY <1>2, <1>6, <1>7

LEMMA DeleteGroupSees ==
  ASSUME TypeInv, Apart, ViewInv, Calm', NEW q \in wire, NEW io \in IO,
         DeleteGroup(q, io)
  PROVE  ViewInv'
<1> DEFINE doc == Read(io)
           kept == DOMAIN doc.rooms \ DOMAIN q.doc.rooms
           known == kept # DOMAIN doc.rooms
           rooms == [x \in kept |-> doc.rooms[x]]
           new == [doc EXCEPT !.rooms = rooms]
           how == IF known THEN "ok" ELSE "fail"
<1>1. /\ Handle(q, {"delete"}, io, how, q.doc)
      /\ IF known THEN Save(new, io) ELSE UNCHANGED file
      /\ used' = used
  BY DEF DeleteGroup
<1>2. io = "fine" /\ q.act = "delete" /\ q.at = "sent"
  <2>1. io = "fine" /\ q.act \in {"delete"} /\ q.at = "sent"
    <3> HIDE DEF how, new, known, doc
    <3> QED BY <1>1, HandleFine
  <2> QED BY <2>1
<1>3. PICK r \in RoomId : /\ DOMAIN q.doc.rooms = {r} /\ r \in q.touch
                          /\ r \in DOMAIN file.rooms
  BY <1>2 DEF ViewInv, Aims, Aimed, Named
<1>4. doc = file
  BY <1>2, FileIn
<1>5. known /\ how = "ok"
  <2>1. r \in DOMAIN doc.rooms /\ r \notin kept
    BY <1>3, <1>4
  <2> QED BY <2>1
<1>6. /\ file'.favs = file.favs /\ DOMAIN file'.rooms = DOMAIN file.rooms \ {r}
      /\ \A x \in DOMAIN file'.rooms : file'.rooms[x] = file.rooms[x]
  <2>1. file' = new
    <3> HIDE DEF new, known
    <3> QED BY <1>1, <1>2, <1>5 DEF Save
  <2>2. DOMAIN rooms = DOMAIN file.rooms \ {r}
        /\ \A x \in DOMAIN rooms : rooms[x] = file.rooms[x]
    BY <1>3, <1>4
  <2>3. rooms \in Maps
    <3>1. kept \in SUBSET DOMAIN doc.rooms /\ doc.rooms \in Maps
      BY <1>4, FileIn
    <3> HIDE DEF kept, doc
    <3> QED BY <3>1, SomeRooms
  <2>4. new = [file EXCEPT !.rooms = rooms]
    BY <1>4
  <2> HIDE DEF rooms, new
  <2> QED BY <2>1, <2>2, <2>3, <2>4, FileIn, RoomsReplaced
<1>7. r # "favs" /\ \A p : About(q.act, q.doc, p) <=> p = r
  BY <1>2, <1>3, FavsAssumption DEF About
<1>8. ASSUME NEW p \in Place, p # r PROVE SameAt(p, file, file')
  BY <1>6, <1>8 DEF SameAt
<1>9. Fits(view[q.tab], q.act, q.doc, r) => SameAt(r, view[q.tab], file')
  BY <1>2, <1>6, <1>7 DEF Fits, SameAt
<1>10. ASSUME NEW o \in wire \ {q}, NEW x \in DOMAIN file.rooms,
              x \in o.touch
       PROVE  x \in DOMAIN file'.rooms
  <2>1. Alone(q, o)
    BY <1>2 DEF Apart, Siblings
  <2>2. x # r
    BY <1>3, <1>10, <2>1 DEF Alone
  <2> QED BY <1>6, <1>10, <2>2
<1> HIDE DEF how, new, known, doc
<1>11. Handle(q, {"delete"}, io, "ok", q.doc) /\ "create" \notin {"delete"}
  BY <1>1, <1>5
<1>12. Spares(q)
  BY <1>10 DEF Spares
<1>13. Puts(q)
  BY <1>7, <1>8, <1>9 DEF Puts
<1> QED BY <1>1, <1>11, <1>12, <1>13, ServeSees

LEMMA SetFavoritesSees ==
  ASSUME TypeInv, ViewInv, Calm', NEW q \in wire, NEW io \in IO,
         SetFavorites(q, io)
  PROVE  ViewInv'
<1> DEFINE new == [Read(io) EXCEPT !.favs = q.doc.favs]
<1>1. /\ Handle(q, {"star"}, io, "ok", q.doc) /\ Save(new, io) /\ used' = used
  BY DEF SetFavorites
<1>2. io = "fine" /\ q.act = "star"
  <2>1. io = "fine" /\ q.act \in {"star"}
    <3> HIDE DEF new
    <3> QED BY <1>1, HandleFine
  <2> QED BY <2>1
<1>3. file'.rooms = file.rooms /\ file'.favs = q.doc.favs
  <2>1. file' = [file EXCEPT !.favs = q.doc.favs]
    BY <1>1, <1>2, FileIn DEF Save
  <2> QED BY <2>1, FileIn, RequestDoc, FavsReplaced
<1>4. \A p : About(q.act, q.doc, p) <=> p = "favs"
  BY <1>2 DEF About
<1>5. ASSUME NEW p \in Place, p # "favs" PROVE SameAt(p, file, file')
  BY <1>3, <1>5 DEF SameAt
<1>6. Fits(view[q.tab], q.act, q.doc, "favs")
        => SameAt("favs", view[q.tab], file')
  BY <1>2, <1>3 DEF Fits, SameAt
<1> HIDE DEF new
<1>7. "create" \notin {"star"}
  OBVIOUS
<1>8. Spares(q)
  BY <1>3 DEF Spares
<1>9. Puts(q)
  BY <1>4, <1>5, <1>6 DEF Puts
<1> QED BY <1>1, <1>7, <1>8, <1>9, ServeSees

\* A restore is served alone, and no tab counts as the last to have edited.
LEMMA RestoreSees ==
  ASSUME TypeInv, Apart, ViewInv, Calm', NEW q \in wire, NEW io \in IO,
         RestoreGroups(q, io)
  PROVE  ViewInv'
<1>1. Handle(q, {"restore"}, io, "ok", q.doc) /\ used' = used
  BY DEF RestoreGroups
<1>2. q.act = "restore"
  BY <1>1 DEF Handle
<1>3. q.touch = Place /\ \A p \in Place : last[p] = NoTab
  BY <1>2 DEF ViewInv, Aims, Aimed
<1>4. ASSUME NEW o \in wire \ {q}, NEW r \in DOMAIN file.rooms, r \in o.touch
      PROVE  FALSE
  <2>1. Alone(q, o)
    BY <1>2 DEF Apart, Siblings
  <2>2. r \in Place
    BY FileIn, RoomPlace
  <2> QED BY <1>3, <1>4, <2>1, <2>2 DEF Alone
<1>5. "create" \notin {"restore"}
  OBVIOUS
<1>6. Spares(q) /\ Puts(q)
  BY <1>3, <1>4 DEF Spares, Puts
<1> QED BY <1>1, <1>5, <1>6, ServeSees

\* The room is new to every tab, and to all that is under way.
LEMMA CreateGroupSees ==
  ASSUME TypeInv, ViewInv, Calm', NEW q \in wire, NEW io \in IO,
         NEW r \in RoomId, CreateGroup(q, io, r)
  PROVE  ViewInv'
<1> DEFINE one == [x \in {r} |-> {}]
           new == [Read(io) EXCEPT !.rooms = Over(one, @)]
<1>1. /\ r \notin used /\ used' = used \cup {r}
      /\ Handle(q, {"create"}, io, "ok", Fragment(r, {}))
      /\ Save(new, io)
  BY DEF CreateGroup
<1>2. /\ io = "fine" /\ q.act \in {"create"} /\ q.at = "sent"
      /\ UNCHANGED <<view, load, pending, ops, last>>
  <2> HIDE DEF new
  <2> QED BY <1>1, HandleFine
<1>3. PICK n : /\ wire' = (wire \ {q}) \cup {n}
               /\ n.op = q.op /\ n.tab = q.tab /\ n.act = q.act
               /\ n.at = "ok" /\ n.doc = Fragment(r, {})
  <2> HIDE DEF new
  <2> QED BY <1>1, HandleFine
<1>4. DOMAIN n.doc.rooms = {r} /\ n.act = "create"
  <2>1. DOMAIN Fragment(r, {}).rooms = {r}
    BY DEF Fragment, EmptyDoc
  <2> QED BY <1>2, <1>3, <2>1
<1>5. /\ file'.favs = file.favs
      /\ DOMAIN file'.rooms = {r} \cup DOMAIN file.rooms
      /\ \A x \in DOMAIN file.rooms : file'.rooms[x] = file.rooms[x]
  <2>1. file' = [file EXCEPT !.rooms = Over(one, file.rooms)]
    BY <1>1, <1>2, FileIn DEF Save
  <2>2. one \in Maps /\ DOMAIN one = {r}
    <3>1. one \in [{r} -> SUBSET Id] /\ {r} \in SUBSET RoomId
      OBVIOUS
    <3> HIDE DEF one
    <3> QED BY <3>1, MapIn
  <2>3. r \notin DOMAIN file.rooms
    BY <1>1 DEF TypeInv, FileOK
  <2> HIDE DEF one
  <2>4. Over(one, file.rooms) \in Maps
    BY <2>2, FileIn, OverIn
  <2>5. file'.rooms = Over(one, file.rooms) /\ file'.favs = file.favs
    BY <2>1, <2>4, FileIn, RoomsReplaced
  <2> QED BY <2>2, <2>3, <2>5 DEF Over
<1>6. Aims /\ Handed /\ Numbered /\ NewRooms /\ Shown
  BY DEF ViewInv
<1>7. Aims'
  <2>1. ASSUME NEW o \in wire \ {q} PROVE Aimed(o)'
    <3>1. Aimed(o)
      BY <1>6 DEF Aims
    <3> QED BY <1>2, <1>5, <3>1 DEF Aimed
  <2>2. Aimed(n)'
    BY <1>3, <1>4 DEF Aimed, Named
  <2> QED BY <1>3, <2>1, <2>2 DEF Aims
<1>8. Handed'
  BY <1>1, <1>2, <1>6 DEF Handed
<1>9. Numbered'
  BY <1>2, <1>3, <1>6 DEF Numbered
<1>10. \A p \in Place : last[p] # NoTab => p # r
  BY <1>1, <1>6, FavsAssumption DEF Shown, ShownAt
<1>11. NewRooms'
  <2>1. ASSUME NEW o \in wire, Created(o)
        PROVE  NewRoom(o)' /\ r \notin DOMAIN o.doc.rooms
    <3>1. NewRoom(o)
      BY <1>6, <2>1 DEF NewRooms
    <3> QED BY <1>1, <1>2, <3>1 DEF NewRoom, Settled, InView
  <2>2. NewRoom(n)'
    <3>1. n.tab \in Tab /\ n.tab # NoTab /\ r \in Place
      BY <1>3, RequestDoc, NoTabAssumption, RoomPlace DEF Requests
    <3>2. r \notin DOMAIN view[n.tab].rooms
      BY <1>1, <1>6, <3>1 DEF Handed
    <3>3. last[r] # n.tab
      BY <1>10, <3>1
    <3> QED BY <1>1, <1>2, <1>4, <3>2, <3>3 DEF NewRoom, InView
  <2>3. \A o, p \in wire : Created(o) /\ Created(p) /\ o # p =>
          DOMAIN o.doc.rooms \cap DOMAIN p.doc.rooms = {}
    BY <1>6 DEF NewRooms
  <2>4. \A o \in wire' : Created(o)' => Created(o)
    BY DEF Created
  <2> QED BY <1>3, <1>4, <2>1, <2>2, <2>3, <2>4 DEF NewRooms
<1>12. Shown'
  <2> SUFFICES ASSUME NEW p \in Place, last[p] # NoTab PROVE ShownAt(p)'
    BY <1>2 DEF Shown
  <2>1. ShownAt(p) /\ p # r
    BY <1>6, <1>10 DEF Shown
  <2>2. SameAt(p, file, file')
    BY <1>5, <2>1 DEF SameAt
  <2>3. ~About(q.act, q.doc, p) /\ ~About(n.act, n.doc, p)
    BY <1>2, <1>3 DEF About
  <2>4. \A o \in wire' : About(o.act, o.doc, p) =>
          o.tab = last[p] /\ Fits(view[o.tab], o.act, o.doc, p)
    BY <1>3, <2>1, <2>3 DEF ShownAt
  <2>5. \/ \E o \in wire' : About(o.act, o.doc, p) /\ o.at = "sent"
        \/ SameAt(p, view[last[p]], file')
    <3>1. CASE \E o \in wire : About(o.act, o.doc, p) /\ o.at = "sent"
      BY <1>3, <2>3, <3>1
    <3>2. CASE SameAt(p, view[last[p]], file)
      BY <2>2, <3>2, SameAtTrans
    <3> QED BY <2>1, <3>1, <3>2 DEF ShownAt
  <2> QED BY <1>1, <1>2, <2>1, <2>4, <2>5 DEF ShownAt
<1> QED BY <1>7, <1>8, <1>9, <1>11, <1>12 DEF ViewInv

\* An answer only brings the tab what it shows already, or a room that is new
\* to it and that no other answer brings.
Harmless(q) ==
  /\ \A t \in Tab : DOMAIN view'[t].rooms \subseteq used
  /\ \A p \in Place : last[p] # NoTab =>
       SameAt(p, view'[last[p]], view[last[p]])
  /\ \A o \in wire \ {q} : Created(o) =>
       \A r \in DOMAIN o.doc.rooms :
         ~InView(o.tab, r) => r \notin DOMAIN view'[o.tab].rooms

LEMMA AnswerHarmless ==
  ASSUME TypeInv, ViewInv, NEW q \in wire, AnswerOk(q)
  PROVE  Harmless(q)
<1>1. /\ q.at = "ok" /\ wire' = wire \ {q} /\ pending' \subseteq pending
      /\ view' = IF Settled(q) = {} THEN view
                 ELSE [view EXCEPT ![q.tab] = Adopt(@, q)]
      /\ UNCHANGED <<file, used, load, ops, last>>
  BY DEF AnswerOk, server, history
<1>2. Aims /\ Handed /\ Numbered /\ NewRooms /\ Shown
  BY DEF ViewInv
<1>3. q \in Requests /\ q.tab \in Tab /\ view[q.tab] \in Doc
      /\ q.doc.rooms \in Maps /\ q.doc.favs \in SUBSET Id
  BY RequestDoc, ViewIn DEF Requests
<1>4. \A t \in Tab : \/ view'[t] = view[t]
                     \/ /\ t = q.tab /\ Settled(q) # {}
                        /\ view'[t] = Adopt(view[t], q)
  BY <1>1, <1>3 DEF TypeInv, TabsOK
<1>5. CASE q.act = "create"
  <2>1. Created(q) /\ NewRoom(q)
    BY <1>1, <1>2, <1>5 DEF NewRooms, Created
  <2>2. Adopt(view[q.tab], q).favs = view[q.tab].favs
        /\ Adopt(view[q.tab], q).rooms = Over(view[q.tab].rooms, q.doc.rooms)
    <3>1. Over(view[q.tab].rooms, q.doc.rooms) \in Maps
      BY <1>3, ViewIn, OverIn
    <3>2. Adopt(view[q.tab], q) = [view[q.tab] EXCEPT !.rooms =
                                     Over(view[q.tab].rooms, q.doc.rooms)]
      BY <1>5 DEF Adopt
    <3> QED BY <1>3, <3>1, <3>2, RoomsReplaced
  <2>3. \A t \in Tab : DOMAIN view'[t].rooms \subseteq used
    BY <1>2, <1>4, <2>1, <2>2 DEF Handed, NewRoom, Over
  <2>4. ASSUME NEW t \in Tab, NEW p, p \notin DOMAIN q.doc.rooms \/ t # q.tab
        PROVE  p \in DOMAIN view'[t].rooms <=> p \in DOMAIN view[t].rooms
    BY <1>4, <2>2, <2>4 DEF Over
  <2>5. ASSUME NEW p \in Place, last[p] # NoTab
        PROVE  SameAt(p, view'[last[p]], view[last[p]])
    <3>1. last[p] \in Tab
      BY <2>5 DEF TypeInv, HistoryOK
    <3>2. CASE view'[last[p]] = view[last[p]]
      BY <3>2, SameAtSelf
    <3>3. CASE view'[last[p]] # view[last[p]]
      <4>1. last[p] = q.tab /\ Settled(q) # {}
            /\ view'[q.tab] = Adopt(view[q.tab], q)
        BY <1>4, <3>1, <3>3
      <4>2. p \notin DOMAIN q.doc.rooms
        BY <2>1, <4>1 DEF NewRoom
      <4> QED BY <2>2, <4>1, <4>2 DEF SameAt, Over
    <3> QED BY <3>2, <3>3
  <2>6. ASSUME NEW o \in wire \ {q}, Created(o), NEW r \in DOMAIN o.doc.rooms,
               ~InView(o.tab, r)
        PROVE  r \notin DOMAIN view'[o.tab].rooms
    <3>1. r \notin DOMAIN q.doc.rooms /\ o.tab \in Tab
      BY <1>2, <2>1, <2>6, RequestDoc DEF NewRooms, Requests
    <3> QED BY <2>4, <2>6, <3>1 DEF InView
  <2> QED BY <2>3, <2>5, <2>6 DEF Harmless
<1>6. CASE q.act # "create"
  <2>1. \A t \in Tab : \/ view'[t] = view[t]
                       \/ /\ t = q.tab /\ q.act = "star"
                          /\ view'[t].favs = q.doc.favs
                          /\ view'[t].rooms = view[t].rooms
    <3>1. CASE q.act = "star"
      <4>1. Adopt(view[q.tab], q) = [view[q.tab] EXCEPT !.favs = q.doc.favs]
        BY <3>1 DEF Adopt
      <4>2. /\ Adopt(view[q.tab], q).favs = q.doc.favs
            /\ Adopt(view[q.tab], q).rooms = view[q.tab].rooms
        BY <1>3, <4>1, FavsReplaced
      <4> QED BY <1>4, <3>1, <4>2
    <3>2. CASE q.act # "star"
      BY <1>4, <1>6, <3>2 DEF Adopt
    <3> QED BY <3>1, <3>2
  <2>2. \A t \in Tab : view'[t].rooms = view[t].rooms
    BY <2>1
  <2>3. \A t \in Tab : DOMAIN view'[t].rooms \subseteq used
    BY <1>2, <2>2 DEF Handed
  <2>4. ASSUME NEW p \in Place, last[p] # NoTab
        PROVE  SameAt(p, view'[last[p]], view[last[p]])
    <3>1. last[p] \in Tab
      BY <2>4 DEF TypeInv, HistoryOK
    <3>2. CASE p # "favs"
      BY <2>2, <3>1, <3>2 DEF SameAt
    <3>3. CASE p = "favs" /\ view'[last[p]] = view[last[p]]
      BY <3>3, SameAtSelf
    <3>4. CASE p = "favs" /\ view'[last[p]] # view[last[p]]
      <4>1. last[p] = q.tab /\ q.act = "star" /\ view'[q.tab].favs = q.doc.favs
        BY <2>1, <3>1, <3>4
      <4>2. Fits(view[q.tab], q.act, q.doc, p)
        BY <1>2, <2>4, <3>4, <4>1 DEF Shown, ShownAt, About
      <4> QED BY <3>4, <4>1, <4>2 DEF Fits, SameAt
    <3> QED BY <3>2, <3>3, <3>4
  <2>5. ASSUME NEW o \in wire \ {q}, Created(o), NEW r \in DOMAIN o.doc.rooms,
               ~InView(o.tab, r)
        PROVE  r \notin DOMAIN view'[o.tab].rooms
    <3>1. o.tab \in Tab
      BY RequestDoc DEF Requests
    <3> QED BY <2>2, <2>5, <3>1 DEF InView
  <2> QED BY <2>3, <2>4, <2>5 DEF Harmless
<1> QED BY <1>5, <1>6

LEMMA AnswerOkSees ==
  ASSUME TypeInv, ViewInv, NEW q \in wire, AnswerOk(q)
  PROVE  ViewInv'
<1>1. /\ q.at = "ok" /\ wire' = wire \ {q} /\ pending' \subseteq pending
      /\ UNCHANGED <<file, used, load, ops, last>>
  BY DEF AnswerOk, server, history
<1>2. Aims /\ Handed /\ Numbered /\ NewRooms /\ Shown /\ Harmless(q)
  BY AnswerHarmless DEF ViewInv
<1>3. Aims'
  BY <1>1, <1>2 DEF Aims, Aimed
<1>4. Handed'
  BY <1>1, <1>2 DEF Handed, Harmless
<1>5. Numbered'
  BY <1>1, <1>2 DEF Numbered
<1>6. NewRooms'
  <2>1. ASSUME NEW o \in wire', Created(o) PROVE NewRoom(o)'
    <3>1. NewRoom(o) /\ o \in wire \ {q}
      BY <1>1, <1>2, <2>1 DEF NewRooms
    <3>2. Settled(o)' # {} => Settled(o) # {}
      BY <1>1 DEF Settled
    <3>3. \A r \in DOMAIN o.doc.rooms : ~InView(o.tab, r) => ~InView(o.tab, r)'
      BY <1>2, <2>1, <3>1 DEF Harmless, InView
    <3> QED BY <1>1, <3>1, <3>2, <3>3 DEF NewRoom
  <2>2. \A o, p \in wire : Created(o) /\ Created(p) /\ o # p =>
          DOMAIN o.doc.rooms \cap DOMAIN p.doc.rooms = {}
    BY <1>2 DEF NewRooms
  <2>3. \A o \in wire' : Created(o)' => Created(o)
    BY DEF Created
  <2> QED BY <1>1, <2>1, <2>2, <2>3 DEF NewRooms
<1>7. Shown'
  <2> SUFFICES ASSUME NEW p \in Place, last[p] # NoTab PROVE ShownAt(p)'
    BY <1>1 DEF Shown
  <2>1. ShownAt(p) /\ SameAt(p, view'[last[p]], view[last[p]])
    BY <1>2 DEF Shown, Harmless
  <2>2. ASSUME NEW o \in wire', About(o.act, o.doc, p)
        PROVE  o.tab = last[p] /\ Fits(view'[o.tab], o.act, o.doc, p)
    <3>1. o \in wire /\ o.tab = last[p] /\ Fits(view[o.tab], o.act, o.doc, p)
      BY <1>1, <2>1, <2>2 DEF ShownAt
    <3>2. DOMAIN o.doc.rooms \subseteq RoomId
      BY <3>1, RequestDoc, MapOut
    <3> QED BY <2>1, <2>2, <3>1, <3>2, FitsSame, PlaceIs
  <2>3. \/ \E o \in wire' : About(o.act, o.doc, p) /\ o.at = "sent"
        \/ SameAt(p, view'[last[p]], file)
    <3>1. CASE \E o \in wire : About(o.act, o.doc, p) /\ o.at = "sent"
      BY <1>1, <3>1
    <3>2. CASE SameAt(p, view[last[p]], file)
      BY <2>1, <3>2, SameAtTrans
    <3> QED BY <2>1, <3>1, <3>2 DEF ShownAt
  <2> QED BY <1>1, <2>1, <2>2, <2>3 DEF ShownAt
<1> QED BY <1>3, <1>4, <1>5, <1>6, <1>7 DEF ViewInv

-----------------------------------------------------------------------------
(* What the tabs show when pages load and devices are found                *)

\* A tab whose load is not over is no editor: it has no open edit, and is not
\* the last to have edited anything.
LEMMA LoadingTab ==
  ASSUME TypeInv, ViewInv, NEW t \in Tab, load[t].left # {}
  PROVE  /\ \A p \in Place : last[p] # NoTab => last[p] # t
         /\ \A q \in wire : Settled(q) # {} => q.tab # t
         /\ \A e \in pending : e.tab # t
<1>1. \A p \in Place : last[p] # NoTab => last[p] # t
  BY DEF ViewInv, Shown, ShownAt
<1>2. \A e \in pending : e.tab # t
  BY DEF ViewInv, Numbered
<1>3. ASSUME NEW q \in wire, NEW e \in pending, e.op = q.op PROVE q.tab # t
  BY <1>2, <1>3 DEF ViewInv, Numbered
<1> QED BY <1>1, <1>2, <1>3 DEF Settled

\* A step of the page of tab t, which is loading or leaves the page; it is not
\* the last to have edited anything afterwards.
LEMMA PageSees ==
  ASSUME TypeInv, ViewInv, NEW t \in Tab, UNCHANGED <<file, used, wire>>,
         ops \in Nat /\ ops' \in Nat /\ ops <= ops',
         pending' = {e \in pending : e.tab # t},
         \A u \in Tab \ {t} : view'[u] = view[u] /\ load'[u] = load[u],
         DOMAIN view'[t].rooms \subseteq used,
         DOMAIN load'[t].got.rooms \subseteq used,
         \A p \in Place : last'[p] = IF last[p] = t THEN NoTab ELSE last[p]
  PROVE  ViewInv'
<1>1. Aims /\ Handed /\ Numbered /\ NewRooms /\ Shown
  BY DEF ViewInv
<1>2. Aims'
  BY <1>1 DEF Aims, Aimed
<1>3. Handed'
  BY <1>1 DEF Handed
<1>4. Numbered'
  <2>1. \A q \in wire : q.op \in Nat
    BY BoundsAssumption DEF TypeInv, WireOK, Requests, Op
  <2>2. \A q \in wire' : q.op <= ops'
    BY <1>1, <2>1 DEF Numbered
  <2>3. \A e \in pending' : e.tab \in Tab \ {t} /\ e \in pending
    BY DEF TypeInv, WireOK, Edits
  <2> QED BY <1>1, <2>2, <2>3 DEF Numbered
<1>5. NewRooms'
  <2>1. ASSUME NEW q \in wire, Created(q) PROVE NewRoom(q)'
    <3>1. NewRoom(q) /\ q.tab \in Tab /\ DOMAIN q.doc.rooms \subseteq RoomId
      BY <1>1, <2>1, RequestDoc, MapOut DEF NewRooms, Requests
    <3>2. ASSUME Settled(q)' # {}
          PROVE  Settled(q) # {} /\ q.tab # t
      <4>1. PICK e \in pending : e.tab # t /\ e.op = q.op
        BY <3>2 DEF Settled
      <4>2. q.tab # t
        BY <1>1, <4>1 DEF Numbered
      <4> QED BY <4>1, <4>2 DEF Settled
    <3>3. ASSUME Settled(q)' # {}, NEW r \in DOMAIN q.doc.rooms
          PROVE  ~InView(q.tab, r)' /\ last'[r] # q.tab
      <4>1. ~InView(q.tab, r) /\ last[r] # q.tab
        BY <3>1, <3>2, <3>3 DEF NewRoom
      <4>2. r \in Place
        BY <3>1, RoomPlace
      <4> QED BY <3>1, <3>2, <3>3, <4>1, <4>2, NoTabAssumption DEF InView
    <3> QED BY <3>1, <3>3 DEF NewRoom
  <2>2. \A q \in wire' : Created(q)' => Created(q)
    BY DEF Created
  <2> QED BY <1>1, <2>1, <2>2 DEF NewRooms
<1>6. Shown'
  <2> SUFFICES ASSUME NEW p \in Place, last'[p] # NoTab PROVE ShownAt(p)'
    BY DEF Shown
  <2>1. last'[p] = last[p] /\ last[p] \in Tab \ {t} /\ ShownAt(p)
    BY <1>1 DEF Shown, TypeInv, HistoryOK
  <2> QED BY <2>1 DEF ShownAt
<1> QED BY <1>2, <1>3, <1>4, <1>5, <1>6 DEF ViewInv

LEMMA OpsIn == ASSUME TypeInv PROVE ops \in Nat /\ faults \in Nat
  BY BoundsAssumption DEF TypeInv, CountOK

LEMMA ReadPartSees ==
  ASSUME TypeInv, ViewInv, Calm', NEW t \in Tab, NEW part \in Part,
         NEW bad \in BOOLEAN, ReadPart(t, part, bad)
  PROVE  ViewInv'
<1>1. /\ part \in load[t].left
      /\ faults' = faults + IF bad THEN 1 ELSE 0
      /\ UNCHANGED <<file, used, wire, view, pending, ops, last>>
  BY DEF ReadPart, server, history
<1>2. ~bad
  BY <1>1, OpsIn DEF Calm
<1>3. load' = [load EXCEPT ![t].left = @ \ {part},
          ![t].got = IF part = "rooms" THEN [@ EXCEPT !.rooms = file.rooms]
                     ELSE [@ EXCEPT !.favs = file.favs]]
  BY <1>2 DEF ReadPart
<1>4. /\ load[t].got \in Doc /\ \A u \in Tab \ {t} : load'[u] = load[u]
      /\ load'[t].got = IF part = "rooms"
                        THEN [load[t].got EXCEPT !.rooms = file.rooms]
                        ELSE [load[t].got EXCEPT !.favs = file.favs]
  BY <1>3 DEF TypeInv, TabsOK
<1>5. DOMAIN load'[t].got.rooms \subseteq used
  <2>1. load'[t].got.rooms = IF part = "rooms" THEN file.rooms
                             ELSE load[t].got.rooms
    BY <1>4, DocIs
  <2>2. /\ DOMAIN file.rooms \subseteq used
        /\ DOMAIN load[t].got.rooms \subseteq used
    BY DEF TypeInv, FileOK, ViewInv, Handed
  <2> QED BY <2>1, <2>2
<1>6. /\ pending' = {e \in pending : e.tab # t}
      /\ \A p \in Place : last'[p] = IF last[p] = t THEN NoTab ELSE last[p]
      /\ DOMAIN view'[t].rooms \subseteq used
  BY <1>1, LoadingTab, NoTabAssumption DEF ViewInv, Handed
<1>7. /\ \A u \in Tab \ {t} : view'[u] = view[u] /\ load'[u] = load[u]
      /\ ops \in Nat /\ ops' \in Nat /\ ops <= ops'
      /\ UNCHANGED <<file, used, wire>>
  BY <1>1, <1>4, OpsIn
<1> QED BY <1>5, <1>6, <1>7, PageSees

LEMMA LoadedSees ==
  ASSUME TypeInv, ViewInv, NEW t \in Tab, Loaded(t)
  PROVE  ViewInv'
<1>1. /\ load[t].left # {}
      /\ view' = [view EXCEPT ![t] = load[t].got]
      /\ load' = [load EXCEPT ![t] = [left |-> {}, got |-> EmptyDoc]]
      /\ UNCHANGED <<file, used, wire, pending, ops, last>>
  BY DEF Loaded, server, history
<1>2. /\ \A u \in Tab \ {t} : view'[u] = view[u] /\ load'[u] = load[u]
      /\ view'[t] = load[t].got /\ load'[t].got = EmptyDoc
  BY <1>1 DEF TypeInv, TabsOK
<1>3. /\ DOMAIN view'[t].rooms \subseteq used
      /\ DOMAIN load'[t].got.rooms \subseteq used
  BY <1>2, EmptyDocIn DEF ViewInv, Handed
<1>4. /\ pending' = {e \in pending : e.tab # t}
      /\ \A p \in Place : last'[p] = IF last[p] = t THEN NoTab ELSE last[p]
  BY <1>1, LoadingTab, NoTabAssumption
<1> QED BY <1>1, <1>2, <1>3, <1>4, OpsIn, PageSees

LEMMA ReloadSees ==
  ASSUME TypeInv, ViewInv, NEW t \in Tab, Reload(t)
  PROVE  ViewInv'
<1>1. /\ view' = [view EXCEPT ![t] = EmptyDoc]
      /\ load' = [load EXCEPT ![t] = Loading]
      /\ pending' = {e \in pending : e.tab # t} /\ ops' = ops + 1
      /\ last' = [p \in Place |-> IF last[p] = t THEN NoTab ELSE last[p]]
      /\ UNCHANGED <<file, used, wire>>
  BY DEF Reload, server
<1>2. /\ \A u \in Tab \ {t} : view'[u] = view[u] /\ load'[u] = load[u]
      /\ view'[t] = EmptyDoc /\ load'[t].got = EmptyDoc
  BY <1>1 DEF TypeInv, TabsOK, Loading
<1>3. /\ DOMAIN view'[t].rooms \subseteq used
      /\ DOMAIN load'[t].got.rooms \subseteq used
  BY <1>2, EmptyDocIn
<1>4. ops \in Nat /\ ops' \in Nat /\ ops <= ops'
  BY <1>1, OpsIn
<1> QED BY <1>1, <1>2, <1>3, <1>4, PageSees

\* A step the tabs do not notice; if it changes the file or the wire, nobody
\* counts as the last to have edited anything.
LEMMA AsideSees ==
  ASSUME TypeInv, ViewInv, UNCHANGED <<used, view, load, pending>>,
         ops' \in Nat, ops <= ops', Aims',
         \A q \in wire' \ wire : ~Created(q) /\ q.op = ops' /\ q.op > ops,
         \/ UNCHANGED <<file, last>> /\ wire' = wire
         \/ \A p \in Place : last'[p] = NoTab
  PROVE  ViewInv'
<1>1. Handed /\ Numbered /\ NewRooms /\ Shown
  BY DEF ViewInv
<1>2. /\ \A q \in wire : q.op \in Nat /\ q.op <= ops /\ q.tab \in Tab
      /\ \A q \in wire : DOMAIN q.doc.rooms \subseteq RoomId
      /\ ops \in Nat
  BY <1>1, OpsIn, RequestDoc, MapOut, BoundsAssumption
  DEF Numbered, Requests, Op
<1>3. \A e \in pending : \E q \in wire : e.op = q.op
  BY DEF TypeInv, WireOK
<1>4. Handed'
  BY <1>1 DEF Handed
<1>5. Numbered'
  <2>1. ASSUME NEW q \in wire', NEW e \in pending, e.op = q.op
        PROVE  q \in wire
    BY <1>2, <1>3, <2>1
  <2>2. \A q \in wire' : q.op <= ops'
    BY <1>2
  <2> QED BY <1>1, <2>1, <2>2 DEF Numbered
<1>6. NewRooms'
  <2>1. \A q \in wire' : Created(q) => q \in wire
    OBVIOUS
  <2>2. ASSUME NEW q \in wire, Created(q) PROVE NewRoom(q)'
    <3>1. NewRoom(q)
      BY <1>1, <2>2 DEF NewRooms
    <3>2. \A r \in DOMAIN q.doc.rooms : last'[r] = last[r] \/ last'[r] # q.tab
      BY <1>2, RoomPlace, NoTabAssumption
    <3> QED BY <3>1, <3>2 DEF NewRoom, Settled, InView
  <2>3. \A q \in wire' : Created(q)' => Created(q)
    BY DEF Created
  <2> QED BY <1>1, <2>1, <2>2, <2>3 DEF NewRooms
<1>7. Shown'
  BY <1>1 DEF Shown, ShownAt
<1> QED BY <1>4, <1>5, <1>6, <1>7 DEF ViewInv

\* The restore goes out when nothing else is under way.
LEMMA ConfirmSees ==
  ASSUME TypeInv, ViewInv, ~muddled', NEW t \in Tab, ConfirmRestore(t)
  PROVE  ViewInv'
<1>1. muddled' = (muddled \/ wire # {})
  BY Zenon DEF ConfirmRestore
<1>2. wire = {}
  BY <1>1
<1>3. /\ \A q \in wire' : /\ q.act = "restore" /\ q.at = "sent"
                          /\ q.touch = Place /\ q.op = ops + 1
      /\ \A p \in Place : last'[p] = NoTab
      /\ ops' = ops + 1 /\ UNCHANGED <<used, view, load, pending>>
  BY <1>2 DEF ConfirmRestore, server
<1>4. Aims'
  BY <1>3 DEF Aims, Aimed, Named
<1>5. \A q \in wire' \ wire : ~Created(q) /\ q.op = ops' /\ q.op > ops
  BY <1>3, OpsIn DEF Created
<1>6. ops' \in Nat /\ ops <= ops'
  BY <1>3, OpsIn
<1> QED BY <1>3, <1>4, <1>5, <1>6, AsideSees

LEMMA DiscoverSees ==
  ASSUME TypeInv, ViewInv, NEW d \in Device, NEW io \in IO, Discover(d, io)
  PROVE  ViewInv'
<1> DEFINE new == RekeyDoc(Read(io), host[d], d)
<1>1. /\ last' = [p \in Place |-> IF new # Read(io) THEN NoTab ELSE last[p]]
      /\ IF new # Read(io) THEN Save(new, io) ELSE UNCHANGED file
      /\ UNCHANGED <<used, view, load, pending, wire, ops>>
  BY DEF Discover
<1>2. \/ UNCHANGED <<file, last>>
      \/ \A p \in Place : last'[p] = NoTab
  <2>1. last \in [Place -> Tab \cup {NoTab}]
    BY DEF TypeInv, HistoryOK
  <2> HIDE DEF new
  <2>2. CASE new # Read(io)
    BY <1>1, <2>2
  <2>3. CASE new = Read(io)
    BY <1>1, <2>1, <2>3
  <2> QED BY <2>2, <2>3
<1>3. DOMAIN file'.rooms = DOMAIN file.rooms
  BY DiscoverFile, FileIn, RekeyIn
<1>4. Aims'
  <2>1. ASSUME NEW q \in wire PROVE Aimed(q)'
    <3>1. Aimed(q)
      BY DEF ViewInv, Aims
    <3> QED BY <1>2, <1>3, <3>1 DEF Aimed
  <2> QED BY <1>1, <2>1 DEF Aims
<1> HIDE DEF new
<1> QED BY <1>1, <1>2, <1>4, OpsIn, AsideSees

LEMMA IdleSees ==
  ASSUME TypeInv, ViewInv, ops' \in Nat, ops <= ops',
         UNCHANGED <<file, used, view, load, pending, wire, last>>
  PROVE  ViewInv'
<1>1. Aims'
  BY DEF ViewInv, Aims, Aimed
<1> QED BY <1>1, AsideSees

\* Faults are counted, never taken back.
LEMMA StaysFaulty ==
  ASSUME TypeInv, [Next]_vars, faults' = 0
  PROVE  faults = 0
<1>0. faults \in Nat /\ Handled \subseteq Device
  BY OpsIn, BoundsAssumption
<1>1. ASSUME NEW t, NEW of, NEW new, NEW msgs, NEW subj, NEW touch,
             NEW sound, Edit(t, of, new, msgs, subj, touch, sound)
      PROVE  faults' = faults
  BY <1>1 DEF Edit
<1>2. CASE Click
  <2>1. ASSUME NEW t \in Tab, Reload(t) \/ ConfirmRestore(t)
        PROVE  faults' = faults
    BY <2>1 DEF Reload, ConfirmRestore
  <2>2. ASSUME NEW t \in Tab, NEW d \in Device, NEW to, AssignDevice(t, d, to)
        PROVE  faults' = faults
    BY <1>1, <2>2, AssignIs
  <2>3. ASSUME NEW t \in Tab, NEW r, DeleteRoom(t, r) \/ RenameRoom(t, r)
        PROVE  faults' = faults
    BY <1>1, <2>3 DEF DeleteRoom, RenameRoom
  <2>4. ASSUME NEW t \in Tab, NEW d, CreateRoom(t) \/ ToggleFavorite(t, d)
        PROVE  faults' = faults
    BY <1>1, <2>4 DEF CreateRoom, ToggleFavorite
  <2> QED BY <1>0, <1>2, <2>1, <2>2, <2>3, <2>4 DEF Click
<1>3. CASE Serve
  <2>1. ASSUME NEW q, NEW act, NEW io, NEW how, NEW doc,
               Handle(q, act, io, how, doc)
        PROVE  faults' = faults \/ faults' = faults + 1
    BY <1>0, <2>1 DEF Handle
  <2>2. faults' = faults \/ faults' = faults + 1
    BY <1>3, <2>1 DEF Serve, UpdateGroup, DeleteGroup, CreateGroup,
       SetFavorites, RestoreGroups
  <2> QED BY <1>0, <2>2
<1>4. CASE Background
  <2>1. ASSUME NEW t, NEW part, NEW bad, ReadPart(t, part, bad) \/ Download(bad)
        PROVE  faults' = faults \/ faults' = faults + 1
    BY <1>0, <2>1 DEF ReadPart, Download
  <2>2. ASSUME NEW t, NEW d, NEW a,
               Loaded(t) \/ LoadFails(t) \/ Restart \/ Move(d, a)
        PROVE  faults' = faults \/ faults' = faults + 1
    BY <2>2 DEF Loaded, LoadFails, Restart, Move
  <2>3. ASSUME NEW d, NEW io, Discover(d, io)
        PROVE  faults' = faults \/ faults' = faults + 1
    BY <1>0, <2>3 DEF Discover
  <2>4. faults' = faults \/ faults' = faults + 1
    BY <1>4, <2>1, <2>2, <2>3 DEF Background
  <2> QED BY <1>0, <2>4
<1>5. CASE \E q \in wire : AnswerOk(q) \/ AnswerFailed(q) \/ Lose(q)
  <2>1. faults' = faults \/ faults' = faults + 1
    BY <1>0, <1>5 DEF AnswerOk, AnswerFailed, Lose
  <2> QED BY <1>0, <2>1
<1>6. CASE UNCHANGED vars
  BY <1>6 DEF vars
<1> QED BY <1>2, <1>3, <1>4, <1>5, <1>6 DEF Next

-----------------------------------------------------------------------------
(* The editor sees what the store holds                                    *)

LEMMA SeenNext ==
  ASSUME TypeInv, SettleInv, SeenInv, [Next]_vars
  PROVE  SeenInv'
<1> SUFFICES ASSUME Calm' PROVE ViewInv'
  BY DEF SeenInv
<1>0. Handled \subseteq Device /\ ops \in Nat /\ faults \in Nat
  BY BoundsAssumption, OpsIn
<1>1. /\ ~muddled' /\ faults' = 0
      /\ ~muddled /\ faults = 0
  BY StaysMuddled, StaysFaulty DEF Calm
<1>2. ViewInv /\ Apart
  BY <1>1 DEF Calm, SeenInv, SettleInv, Agreed
<1>3. CASE Click
  BY <1>0, <1>1, <1>2, <1>3, AssignSees, DeleteSees, RenameSees, CreateSees,
     ToggleSees, ConfirmSees, ReloadSees DEF Click
<1>4. CASE Serve
  BY <1>2, <1>4, UpdateSees, DeleteGroupSees, CreateGroupSees,
     SetFavoritesSees, RestoreSees DEF Serve
<1>5. CASE Background
  <2>1. ASSUME NEW t \in Tab, LoadFails(t) PROVE FALSE
    BY <1>1, <2>1 DEF LoadFails
  <2>2. ~Restart /\ \A d, a : ~Move(d, a)
    BY <1>1 DEF Restart, Move
  <2>3. ASSUME NEW bad \in BOOLEAN, Download(bad) PROVE ViewInv'
    <3>1. /\ UNCHANGED <<file, used, view, load, pending, wire, last>>
          /\ ops' = ops + 1
      BY <2>3 DEF Download, server, history
    <3>2. ops' \in Nat /\ ops <= ops'
      BY <1>0, <3>1
    <3> QED BY <1>2, <3>1, <3>2, IdleSees
  <2> QED BY <1>0, <1>2, <1>5, <2>1, <2>2, <2>3, ReadPartSees, LoadedSees,
             DiscoverSees DEF Background
<1>6. CASE \E q \in wire : AnswerOk(q) \/ AnswerFailed(q) \/ Lose(q)
  <2>1. ASSUME NEW q \in wire, AnswerFailed(q) PROVE FALSE
    BY <1>2, <2>1 DEF AnswerFailed, ViewInv, Aims, Aimed
  <2>2. ASSUME NEW q \in wire, Lose(q) PROVE FALSE
    BY <1>1, <2>2 DEF Lose
  <2> QED BY <1>2, <1>6, <2>1, <2>2, AnswerOkSees
<1>7. CASE UNCHANGED vars
  <2>1. /\ UNCHANGED <<file, used, view, load, pending, wire, last>>
        /\ ops' \in Nat /\ ops <= ops'
    BY <1>0, <1>7 DEF vars, server, history
  <2> QED BY <1>2, <2>1, IdleSees
<1> QED BY <1>3, <1>4, <1>5, <1>6, <1>7 DEF Next

LEMMA SeenInit == Init => SeenInv
<1> SUFFICES ASSUME Init PROVE ViewInv
  BY DEF SeenInv
<1>1. /\ wire = {} /\ pending = {} /\ last = [p \in Place |-> NoTab]
      /\ view = [t \in Tab |-> EmptyDoc] /\ load = [t \in Tab |-> Loading]
  BY DEF Init
<1>2. \A t \in Tab : view[t] = EmptyDoc /\ load[t].got = EmptyDoc
  BY <1>1 DEF Loading
<1>3. Handed
  BY <1>2, EmptyDocIn DEF Handed
<1>4. Aims /\ Numbered /\ NewRooms /\ Shown
  BY <1>1 DEF Aims, Numbered, NewRooms, Shown
<1> QED BY <1>3, <1>4 DEF ViewInv

LEMMA SeenImplies == SeenInv => EditorSeesStore
<1> SUFFICES ASSUME SeenInv, ~muddled, faults = 0,
                    NEW p \in Place, last[p] # NoTab, ~Busy({p})
             PROVE  IF p = "favs" THEN view[last[p]].favs = file.favs
                    ELSE /\ p \in DOMAIN file.rooms <=> InView(last[p], p)
                         /\ InView(last[p], p) =>
                              view[last[p]].rooms[p] = file.rooms[p]
  BY DEF EditorSeesStore
<1>1. Aims /\ ShownAt(p)
  BY DEF SeenInv, Calm, ViewInv, Shown
<1>2. ASSUME NEW q \in wire, About(q.act, q.doc, p) PROVE FALSE
  <2>1. p \in q.touch
    BY <1>1, <1>2, AboutTouched DEF Aims
  <2> QED BY <2>1 DEF Busy
<1>3. SameAt(p, view[last[p]], file)
  BY <1>1, <1>2 DEF ShownAt
<1> QED BY <1>3 DEF SameAt, InView

\* Optimism is redeemed: whatever tabs, discovery and restores interleave, as
\* long as nothing is lost and no edit was built on a stale view or met another
\* one, the tab that last edited a room or the stars shows what the file has
\* there once no request about the place is left.
THEOREM EditorSeesStoreHolds == Spec => []EditorSeesStore
<1>1. Spec => []SettleInv
  BY SettleInit, SettleNext, TypeInvariance, HostInvariance, PTL DEF Spec
<1>2. TypeInv /\ SettleInv /\ SeenInv /\ [Next]_vars => SeenInv'
  BY SeenNext
<1>3. Spec => []SeenInv
  BY <1>1, <1>2, SeenInit, TypeInvariance, PTL DEF Spec
<1> QED BY <1>3, SeenImplies, PTL
=============================================================================
