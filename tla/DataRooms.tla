----------------------------- MODULE DataRooms -----------------------------
(***************************************************************************)
(* Data rooms: src/lib/data-room.ts, the routes of administrators under    *)
(* api/data-rooms and those of visitors under api/room/[token].  A room has *)
(* documents, whose files lie in a directory of the room, links that are   *)
(* given to visitors, the visitors that entered by a link, and the events  *)
(* of what they looked at.                                                 *)
(*                                                                         *)
(* A handler that reads a body checks first, awaits the body, and writes   *)
(* then; what it checked may have changed.  All others are synchronous.    *)
(* Rows go by ON DELETE CASCADE and keep their ids (AUTOINCREMENT); files  *)
(* do not go with their room.                                              *)
(***************************************************************************)
EXTENDS Naturals, Sequences

CONSTANTS
    Rooms,        \* ids of rooms
    Emails,       \* addresses visitors enter with
    Handlers,     \* requests that may be served at the same time
    MaxBodies,    \* bound: requests that await a body in a behaviour
    MaxClock,     \* bound: milliseconds of a behaviour
    MaxLinks,     \* bounds: rows of the tables
    MaxDocs,
    MaxVisitors,
    MaxEvents

ASSUME RoomAssumption ==
    /\ MaxBodies \in Nat
    /\ MaxClock \in Nat
    /\ MaxLinks \in Nat
    /\ MaxDocs \in Nat
    /\ MaxVisitors \in Nat
    /\ MaxEvents \in Nat

VARIABLES
    room,       \* data_rooms
    link,       \* data_room_links
    doc,        \* data_room_documents
    visitor,    \* data_room_visitors
    event,      \* data_room_events
    file,       \* the document whose content a file has, or none
    parked,     \* requests that await their body
    bodies,     \* requests so far that await a body
    clock,      \* Date.now()
    cut         \* documents whose deletion was cut short (history)

tables == <<room, link, doc, visitor, event>>
roomsVars == <<tables, file, parked, bodies, clock, cut>>

Times == 0..MaxClock

\* "open" stands for draft and active.
RoomStatus == {"absent", "open", "archived", "gone"}

\* closed: is_active is 0; expired: active, but expires_at has passed
Link == [room : Rooms, status : {"open", "closed", "expired"}, gone : BOOLEAN]

\* name is Date.now() before the original name, which is the same for all;
\* at is the time of the upload (history).
Doc == [room : Rooms, name : Times, at : Times, gone : BOOLEAN]
Visitor == [link : 1..MaxLinks, room : Rooms, email : Emails, gone : BOOLEAN]

\* doc 0 is NULL; open: a page_viewed without a duration
Event == [visitor : 1..MaxVisitors, doc : 0..MaxDocs, room : Rooms, open : BOOLEAN, gone : BOOLEAN]

NoFile == 0
Orphan == MaxDocs + 1   \* content of an upload whose room is gone

Free == [kind |-> "idle"]
Parked ==
    [kind : {"upload", "link"}, room : Rooms]
    \cup [kind : {"store"}, room : Rooms, at : Times]
    \cup [kind : {"setlink", "enter"}, link : 1..MaxLinks]
    \cup [kind : {"event"}, visitor : 1..MaxVisitors, room : Rooms]

RoomsTypeOK ==
    /\ room \in [Rooms -> RoomStatus]
    /\ link \in Seq(Link) /\ Len(link) <= MaxLinks
    /\ doc \in Seq(Doc) /\ Len(doc) <= MaxDocs
    /\ visitor \in Seq(Visitor) /\ Len(visitor) <= MaxVisitors
    /\ event \in Seq(Event) /\ Len(event) <= MaxEvents
    /\ file \in [Rooms \X Times -> 0..Orphan]
    /\ parked \in [Handlers -> Parked \cup {Free}]
    /\ bodies \in 0..MaxBodies
    /\ clock \in Times
    /\ cut \subseteq 1..MaxDocs

RoomsInit ==
    /\ room = [r \in Rooms |-> "absent"]
    /\ link = <<>> /\ doc = <<>> /\ visitor = <<>> /\ event = <<>>
    /\ file = [f \in Rooms \X Times |-> NoFile]
    /\ parked = [q \in Handlers |-> Free]
    /\ bodies = 0
    /\ clock = 0
    /\ cut = {}

Existing(r) == room[r] \in {"open", "archived"}
Live(table) == {i \in DOMAIN table : ~table[i].gone}
Deleted(table, S) ==
    [i \in DOMAIN table |-> IF i \in S THEN [table[i] EXCEPT !.gone = TRUE] ELSE table[i]]

Park(q, request) ==
    /\ parked[q] = Free
    /\ bodies < MaxBodies
    /\ bodies' = bodies + 1
    /\ parked' = [parked EXCEPT ![q] = request]

Answer(q, kind) ==
    /\ parked[q].kind = kind
    /\ parked' = [parked EXCEPT ![q] = Free]
    /\ UNCHANGED bodies

---------------------------------------------------------------------------
(* Rooms *)

\* POST /api/data-rooms
CreateRoom(r) ==
    /\ room[r] = "absent"
    /\ room' = [room EXCEPT ![r] = "open"]
    /\ UNCHANGED <<link, doc, visitor, event, file, parked, bodies, clock, cut>>

\* PUT /api/data-rooms/[id] with a status
SetRoom(r, status) ==
    /\ Existing(r)
    /\ room' = [room EXCEPT ![r] = status]
    /\ UNCHANGED <<link, doc, visitor, event, file, parked, bodies, clock, cut>>

\* DELETE /api/data-rooms/[id]
DeleteRoom(r) ==
    /\ Existing(r)
    /\ room' = [room EXCEPT ![r] = "gone"]
    /\ link' = Deleted(link, {l \in DOMAIN link : link[l].room = r})
    /\ doc' = Deleted(doc, {d \in DOMAIN doc : doc[d].room = r})
    /\ visitor' = Deleted(visitor, {v \in DOMAIN visitor : visitor[v].room = r})
    /\ event' = Deleted(event, {e \in DOMAIN event : event[e].room = r})
    /\ UNCHANGED <<file, parked, bodies, clock, cut>>

---------------------------------------------------------------------------
(* Documents *)

Untimed(t) == 0  \* mutant: the name of a file has no time stamp

NameAt(t) == t

\* POST /api/data-rooms/[id]/documents, which awaits the form, names the file
\* and awaits its content
UploadBegins(q, r) ==
    /\ Existing(r)
    /\ Park(q, [kind |-> "upload", room |-> r])
    /\ UNCHANGED <<tables, file, clock, cut>>

UploadNamed(q) ==
    /\ parked[q].kind = "upload"
    /\ parked' = [parked EXCEPT ![q] = [kind |-> "store", room |-> @.room, at |-> clock]]
    /\ UNCHANGED <<tables, file, bodies, clock, cut>>

\* The file is written first; the row of a room that is gone by now is refused
\* by its foreign key, and the file stays.
UploadEnds(q) ==
    /\ Answer(q, "store")
    /\ Len(doc) < MaxDocs
    /\ LET r == parked[q].room
           t == parked[q].at
       IN  /\ file' = [file EXCEPT ![<<r, NameAt(t)>>] =
                         IF Existing(r) THEN Len(doc) + 1 ELSE Orphan]
           /\ doc' = IF Existing(r)
                     THEN Append(doc, [room |-> r, name |-> NameAt(t), at |-> t, gone |-> FALSE])
                     ELSE doc
    /\ UNCHANGED <<room, link, visitor, event, clock, cut>>

Path(d) == <<doc[d].room, doc[d].name>>

Unlinked(d) == [file EXCEPT ![Path(d)] = NoFile]

\* ON DELETE SET NULL
Detached(d) ==
    [e \in DOMAIN event |-> IF event[e].doc = d THEN [event[e] EXCEPT !.doc = 0] ELSE event[e]]

\* DELETE /api/data-rooms/[id]/documents/[docId]: a file that is missing is no
\* error.
DeleteDoc(d) ==
    /\ d \in Live(doc)
    /\ file' = Unlinked(d)
    /\ doc' = Deleted(doc, {d})
    /\ event' = Detached(d)
    /\ UNCHANGED <<room, link, visitor, parked, bodies, clock, cut>>

\* The server stops after the file was deleted, before the row is.
DeleteCutShort(d) ==
    /\ d \in Live(doc)
    /\ file' = Unlinked(d)
    /\ parked' = [q \in Handlers |-> Free]
    /\ cut' = cut \cup {d}
    /\ UNCHANGED <<tables, bodies, clock>>

---------------------------------------------------------------------------
(* Links *)

\* POST /api/data-rooms/[id]/links
LinkBegins(q, r) ==
    /\ Existing(r)
    /\ Park(q, [kind |-> "link", room |-> r])
    /\ UNCHANGED <<tables, file, clock, cut>>

LinkEnds(q) ==
    /\ Answer(q, "link")
    /\ Len(link) < MaxLinks
    /\ LET r == parked[q].room IN
         link' = IF Existing(r)
                 THEN Append(link, [room |-> r, status |-> "open", gone |-> FALSE])
                 ELSE link
    /\ UNCHANGED <<room, doc, visitor, event, file, clock, cut>>

Given(l, given) == given  \* mutant: what the request leaves out is stored as well

\* updateLink writes the fields a request has; "unset" is none of them.
Updated(l, given) == IF given = "unset" THEN link[l].status ELSE given

\* PUT /api/data-rooms/[id]/links/[linkId]
SetLinkBegins(q, l) ==
    /\ l \in Live(link)
    /\ Park(q, [kind |-> "setlink", link |-> l])
    /\ UNCHANGED <<tables, file, clock, cut>>

SetLinkEnds(q, given) ==
    /\ Answer(q, "setlink")
    /\ LET l == parked[q].link IN
         link' = IF link[l].gone THEN link ELSE [link EXCEPT ![l].status = Updated(l, given)]
    /\ UNCHANGED <<room, doc, visitor, event, file, clock, cut>>

Expire(l) ==
    /\ l \in Live(link)
    /\ link[l].status = "open"
    /\ link' = [link EXCEPT ![l].status = "expired"]
    /\ UNCHANGED <<room, doc, visitor, event, file, parked, bodies, clock, cut>>

\* DELETE /api/data-rooms/[id]/links/[linkId]: its visitors and their events go.
DeleteLink(l) ==
    /\ l \in Live(link)
    /\ LET V == {v \in DOMAIN visitor : visitor[v].link = l} IN
         /\ link' = Deleted(link, {l})
         /\ visitor' = Deleted(visitor, V)
         /\ event' = Deleted(event, {e \in DOMAIN event : event[e].visitor \in V})
    /\ UNCHANGED <<room, doc, file, parked, bodies, clock, cut>>

---------------------------------------------------------------------------
(* Visitors *)

\* POST /api/room/[token]/enter
EnterBegins(q, l) ==
    /\ l \in Live(link)
    /\ link[l].status = "open"
    /\ room[link[l].room] = "open"
    /\ Park(q, [kind |-> "enter", link |-> l])
    /\ UNCHANGED <<tables, file, clock, cut>>

NoneReturns(l, email) == {}  \* mutant: who entered before is not looked for

Returning(l, email) == {v \in Live(visitor) : visitor[v].link = l /\ visitor[v].email = email}

\* Who entered before gets a new session only; a link that is gone by now is
\* refused by the foreign key, one that was closed meanwhile is not.
EnterEnds(q, email) ==
    /\ Answer(q, "enter")
    /\ Len(visitor) < MaxVisitors
    /\ LET l == parked[q].link IN
         visitor' = IF Returning(l, email) # {} \/ link[l].gone THEN visitor
                    ELSE Append(visitor, [link |-> l, room |-> link[l].room, email |-> email, gone |-> FALSE])
    /\ UNCHANGED <<room, link, doc, event, file, clock, cut>>

OpenViews(v, d) ==
    {e \in Live(event) : event[e].visitor = v /\ event[e].doc = d /\ event[e].open}

\* recordEvent: a page view ends the latest of the same document that is open.
Closed(v, d) ==
    [e \in DOMAIN event |->
       IF e \in OpenViews(v, d) /\ \A f \in OpenViews(v, d) : f <= e
       THEN [event[e] EXCEPT !.open = FALSE] ELSE event[e]]

Recorded(v, r, d, type) ==
    Append(IF type = "other" THEN event ELSE Closed(v, d),
           [visitor |-> v, doc |-> d, room |-> r, open |-> type = "page", gone |-> FALSE])

\* A session of a room is good for every link of it.
InRoom(v, l) == v \in Live(visitor) /\ l \in Live(link) /\ visitor[v].room = link[l].room

\* POST /api/room/[token]/events: neither the date of the link nor the status
\* of the room is looked at.
EventBegins(q, v, l) ==
    /\ InRoom(v, l)
    /\ link[l].status # "closed"
    /\ Park(q, [kind |-> "event", visitor |-> v, room |-> link[l].room])
    /\ UNCHANGED <<tables, file, clock, cut>>

\* type is "page" for a page_viewed without a duration, "timed" for one with
\* it, "other" for the other types.
EventEnds(q, d, type) ==
    /\ Answer(q, "event")
    /\ Len(event) < MaxEvents
    /\ d \in Live(doc)
    /\ doc[d].room = parked[q].room
    /\ LET v == parked[q].visitor IN
         event' = IF visitor[v].gone THEN event ELSE Recorded(v, parked[q].room, d, type)
    /\ UNCHANGED <<room, link, doc, visitor, file, clock, cut>>

\* GET /api/room/[token]/documents/[docId]/file
Serve(v, l, d) ==
    /\ InRoom(v, l)
    /\ link[l].status = "open"
    /\ room[link[l].room] = "open"
    /\ d \in Live(doc)
    /\ doc[d].room = link[l].room
    /\ file[Path(d)] # NoFile
    /\ Len(event) < MaxEvents
    /\ event' = Recorded(v, doc[d].room, d, "other")
    /\ UNCHANGED <<room, link, doc, visitor, file, parked, bodies, clock, cut>>

---------------------------------------------------------------------------
(* The surroundings *)

\* A body is not valid, or never comes; the passcode is wrong; the document is
\* none of the room.
Refuse(q) ==
    /\ parked[q] # Free
    /\ parked' = [parked EXCEPT ![q] = Free]
    /\ UNCHANGED <<tables, file, bodies, clock, cut>>

Restart ==
    /\ parked' = [q \in Handlers |-> Free]
    /\ UNCHANGED <<tables, file, bodies, clock, cut>>

Tick ==
    /\ clock < MaxClock
    /\ clock' = clock + 1
    /\ UNCHANGED <<tables, file, parked, bodies, cut>>

---------------------------------------------------------------------------
RoomsNext ==
    \/ \E r \in Rooms :
         \/ CreateRoom(r) \/ DeleteRoom(r)
         \/ \E status \in {"open", "archived"} : SetRoom(r, status)
         \/ \E q \in Handlers : UploadBegins(q, r) \/ LinkBegins(q, r)
    \/ \E d \in DOMAIN doc : DeleteDoc(d) \/ DeleteCutShort(d)
    \/ \E l \in DOMAIN link :
         \/ Expire(l) \/ DeleteLink(l)
         \/ \E q \in Handlers : SetLinkBegins(q, l) \/ EnterBegins(q, l)
         \/ \E v \in DOMAIN visitor :
              \/ \E q \in Handlers : EventBegins(q, v, l)
              \/ \E d \in DOMAIN doc : Serve(v, l, d)
    \/ \E q \in Handlers :
         \/ UploadNamed(q) \/ UploadEnds(q) \/ LinkEnds(q) \/ Refuse(q)
         \/ \E given \in {"open", "closed", "expired", "unset"} : SetLinkEnds(q, given)
         \/ \E email \in Emails : EnterEnds(q, email)
         \/ \E d \in DOMAIN doc, type \in {"page", "timed", "other"} : EventEnds(q, d, type)
    \/ Restart \/ Tick

RoomsSpec == RoomsInit /\ [][RoomsNext]_roomsVars

---------------------------------------------------------------------------
(* Properties *)

\* A document that is listed has the file that was uploaded for it, however
\* uploads overlap with each other and with deletions, unless the server
\* stopped while it was deleted, or two documents of one name were uploaded to
\* the room in the same millisecond.
DocumentHasItsFile ==
    \A d \in Live(doc) :
        \/ file[Path(d)] = d
        \/ d \in cut
        \/ \E e \in DOMAIN doc \ {d} : doc[e].room = doc[d].room /\ doc[e].at = doc[d].at

\* What the analytics count: nobody who enters by a link is counted twice
\* there, every event is of a visitor, a document and the one room both are
\* of, and a document is open at most once for a visitor.  Requests that were
\* parked while rooms, links or documents were deleted change nothing of it.
VisitsAreTrue ==
    /\ \A v, w \in Live(visitor) :
         visitor[v].link = visitor[w].link /\ visitor[v].email = visitor[w].email => v = w
    /\ \A e \in Live(event) :
         /\ event[e].visitor \in Live(visitor)
         /\ event[e].room = visitor[event[e].visitor].room
         /\ event[e].doc # 0 =>
              event[e].doc \in Live(doc) /\ doc[event[e].doc].room = event[e].room
    /\ \A e, f \in Live(event) :
         event[e].open /\ event[f].open /\ event[e].doc # 0
         /\ event[e].visitor = event[f].visitor /\ event[e].doc = event[f].doc => e = f
=============================================================================
