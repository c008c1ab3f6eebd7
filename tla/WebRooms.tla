------------------------------ MODULE WebRooms ------------------------------
(***************************************************************************)
(* internal/httpapi/rooms.go: rooms opened and entered over HTTP, on top   *)
(* of the game service, which is reduced here to what a web client sees of *)
(* a room: who is in it and how often it and its rematch have changed.     *)
(*                                                                         *)
(* A client repeats a request whose answer it did not get.  Opening a room *)
(* takes three calls of the service, under a mutex of the API (roomMu);    *)
(* other people go on playing in between.  Every change the service        *)
(* publishes is signalled to whoever subscribed, through a channel that    *)
(* holds one signal.                                                       *)
(***************************************************************************)
EXTENDS Naturals, FiniteSets

CONSTANTS
  Users, None,
  Rooms,
  Places,        \* groups, and None for a free room
  Requests,      \* identifiers clients give to their requests to open a room
  Calls,         \* HTTP requests being handled
  Watchers,      \* whoever may subscribe to the service
  ReceiptLimit,  \* requests remembered
  MaxRevision    \* bound on the changes of each room

ASSUME WebRoomsAssumption ==
  /\ None \notin Users \cup Rooms \cup Requests
  /\ ReceiptLimit \in Nat /\ MaxRevision \in [Rooms -> Nat]

VARIABLES
  rooms,        \* what the service shows of each room
  receipts,     \* createdRooms
  call,         \* how far each HTTP request is
  subscribers,
  changes       \* subscribers whose channel holds a signal

web == <<rooms, receipts, call>>

Keys == Users \X Requests
Lives == {"open", "finished", "cancelled", "gone"}
RoomRecord ==
  [ key : Keys \cup {None}, place : Places, registered : SUBSET Users,
    revision : Nat, life : Lives, stored : BOOLEAN ]

ASSUME NoRoomAssumption == None \notin RoomRecord

Receipts == [key : Keys, place : Places, room : Rooms]

Idle == [op |-> "idle", user |-> None, request |-> None, place |-> None, room |-> None, revision |-> 0]
CallRecord ==
  [ op : {"idle", "make", "look", "enter", "signal"}, user : Users \cup {None},
    request : Requests \cup {None}, place : Places \cup {None}, room : Rooms \cup {None},
    revision : Nat ]

InitRooms ==
  /\ rooms = [r \in Rooms |-> None]
  /\ receipts = {}
  /\ call = [c \in Calls |-> Idle]
  /\ subscribers = {} /\ changes = {}

-----------------------------------------------------------------------------
(* The service *)

Exists(r) == rooms[r] # None /\ rooms[r].life # "gone"
IsOpen(r) == rooms[r] # None /\ rooms[r].life = "open"

\* A full channel keeps its one signal.
Signal == changes' = changes \cup subscribers

Publish(r, room) ==
  /\ rooms[r].revision < MaxRevision[r]
  /\ rooms' = [rooms EXCEPT ![r] = [room EXCEPT !.revision = @ + 1]]
  /\ Signal

NewRoom(key, place) ==
  [ key |-> key, place |-> place, registered |-> {}, revision |-> 0,
    life |-> "open", stored |-> FALSE ]

\* One open room per group.
Vacant(place) ==
  place = None \/ \A r \in Rooms : ~(IsOpen(r) /\ rooms[r].place = place)

\* /novo in a group.
OpenElsewhere(r) ==
  /\ rooms[r] = None
  /\ \E place \in Places \ {None} :
       /\ Vacant(place)
       /\ rooms' = [rooms EXCEPT ![r] = NewRoom(None, place)]
  /\ UNCHANGED <<receipts, call, subscribers, changes>>

\* Players enter and act from Telegram, the clock skips them; the room may
\* close.
PlayElsewhere(r) ==
  /\ IsOpen(r)
  /\ \E life \in {"open", "finished", "cancelled"}, who \in {{}} \cup {{u} : u \in Users} :
       /\ who # {} => life = "open"
       /\ Publish(r, [rooms[r] EXCEPT !.life = life, !.registered = @ \cup who])
  /\ UNCHANGED <<receipts, call, subscribers>>

\* A closed room is forgotten when enough others have closed, and a reset
\* takes any room of its group.  Neither is signalled.
Forget(r) ==
  /\ Exists(r)
  /\ IsOpen(r) => rooms[r].place # None
  /\ rooms' = [rooms EXCEPT ![r].life = "gone"]
  /\ UNCHANGED <<receipts, call, subscribers, changes>>

\* The result reaches the database; its finalizer signals afterwards.
Store(r) ==
  /\ rooms[r] # None /\ rooms[r].life = "finished" /\ ~rooms[r].stored
  /\ rooms' = [rooms EXCEPT ![r].stored = TRUE]
  /\ UNCHANGED <<receipts, call, subscribers, changes>>

\* Players of a room that has ended and whose result is stored vote for a
\* rematch.  The game is over, its revision stands still: what changes is the
\* revision of the rematch, and clients see the two together.
MayVote(r) == rooms[r] # None /\ rooms[r].life = "finished" /\ rooms[r].stored

Vote(r) == MayVote(r) /\ Publish(r, rooms[r])

VoteElsewhere(r) ==
  /\ Vote(r)
  /\ UNCHANGED <<receipts, call, subscribers>>

\* Also after a vote that changes nothing.
Announce ==
  /\ \E r \in Rooms : rooms[r] # None /\ rooms[r].life \in {"finished", "cancelled"}
  /\ Signal
  /\ UNCHANGED <<rooms, receipts, call, subscribers>>

-----------------------------------------------------------------------------
(* createRoom *)

Return(c) == call' = [call EXCEPT ![c] = Idle]

\* Mutant of RoomMuFree: requests to open a room are not serialized.
NoRoomMu == TRUE

RoomMuFree == \A c \in Calls : call[c].op \notin {"make", "look", "enter"}

ReceiptOf(key) == {x \in receipts : x.key = key}

\* The request is sound and the membership of the group was verified.  The
\* same identifier for another room is a conflict; too many identifiers are
\* too many for ever.
OpenRoom(c) ==
  /\ call[c] = Idle
  /\ RoomMuFree
  /\ \E u \in Users, q \in Requests, place \in Places :
       LET Asks(op, room) ==
             call' = [call EXCEPT ![c] = [op |-> op, user |-> u, request |-> q,
                                          place |-> place, room |-> room, revision |-> 0]]
       IN  \/ \E x \in ReceiptOf(<<u, q>>) : x.place = place /\ Asks("look", x.room)
           \/ /\ ReceiptOf(<<u, q>>) = {}
              /\ Cardinality(receipts) < ReceiptLimit
              /\ Asks("make", None)
  /\ UNCHANGED <<rooms, receipts, subscribers, changes>>

\* Create, and the receipt.  Refused when the group has a room.
MakeRoom(c) ==
  LET key == <<call[c].user, call[c].request>>
      place == call[c].place
  IN  /\ call[c].op = "make"
      /\ \/ /\ Vacant(place)
            /\ \E r \in Rooms :
                 /\ rooms[r] = None
                 /\ rooms' = [rooms EXCEPT ![r] = NewRoom(key, place)]
                 /\ receipts' = receipts \cup {[key |-> key, place |-> place, room |-> r]}
                 /\ call' = [call EXCEPT ![c].op = "look", ![c].room = r]
         \/ /\ ~Vacant(place)
            /\ Return(c)
            /\ UNCHANGED <<rooms, receipts>>
      /\ UNCHANGED <<subscribers, changes>>

\* PublicView.  A room that is gone, closed or entered already is answered.
LookAtRoom(c) ==
  LET r == call[c].room
  IN  /\ call[c].op = "look"
      /\ IF IsOpen(r) /\ call[c].user \notin rooms[r].registered
         THEN call' = [call EXCEPT ![c].op = "enter", ![c].revision = rooms[r].revision]
         ELSE Return(c)
      /\ UNCHANGED <<rooms, receipts, subscribers, changes>>

\* ApplyWeb with the revision that was seen; admission fails when the room
\* has changed, was closed, locked or filled meanwhile.
EnterRoom(c) ==
  LET r == call[c].room
  IN  /\ call[c].op = "enter"
      /\ \/ /\ IsOpen(r) /\ rooms[r].revision = call[c].revision
            /\ call[c].user \notin rooms[r].registered
            /\ Publish(r, [rooms[r] EXCEPT !.registered = @ \cup {call[c].user}])
         \/ UNCHANGED <<rooms, changes>>
      /\ Return(c)
      /\ UNCHANGED <<receipts, subscribers>>

-----------------------------------------------------------------------------
(* joinInvite *)

\* The invitation opens and names a room, the membership of its group was
\* verified.  A stale revision is refused.  Who is registered has left, and
\* enters again, or is playing, and is answered like who just entered.
JoinInvite(c) ==
  /\ call[c] = Idle
  /\ \E u \in Users, r \in Rooms :
       /\ IsOpen(r)
       /\ \/ Publish(r, [rooms[r] EXCEPT !.registered = @ \cup {u}])
          \/ u \in rooms[r].registered /\ UNCHANGED <<rooms, changes>>
       /\ call' = [call EXCEPT ![c] = [Idle EXCEPT !.op = "signal", !.user = u, !.room = r]]
  /\ UNCHANGED <<receipts, subscribers>>

\* The name of the new player was observed, which is not a change by itself.
SignalJoin(c) ==
  /\ call[c].op = "signal"
  /\ Signal
  /\ Return(c)
  /\ UNCHANGED <<rooms, receipts, subscribers>>

RoomsNext ==
  \/ \E r \in Rooms : OpenElsewhere(r) \/ PlayElsewhere(r) \/ VoteElsewhere(r) \/ Forget(r) \/ Store(r)
  \/ Announce
  \/ \E c \in Calls :
       OpenRoom(c) \/ MakeRoom(c) \/ LookAtRoom(c) \/ EnterRoom(c) \/ JoinInvite(c) \/ SignalJoin(c)

-----------------------------------------------------------------------------
(* Properties *)

RoomsTypeOK ==
  /\ rooms \in [Rooms -> RoomRecord \cup {None}]
  /\ receipts \subseteq Receipts
  /\ call \in [Calls -> CallRecord]
  /\ subscribers \subseteq Watchers /\ changes \subseteq Watchers

\* A request opens one room, however often it is repeated, whoever handles
\* it and wherever an earlier attempt stopped: every room that was opened
\* over HTTP is found again by the request that opened it, and a request
\* finds one room.
RequestFindsItsRoom ==
  /\ \A r \in Rooms : rooms[r] # None /\ rooms[r].key # None =>
       \E x \in receipts : x.key = rooms[r].key /\ x.room = r
  /\ \A x, y \in receipts : x.key = y.key => x = y
=============================================================================
