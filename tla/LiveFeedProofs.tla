--------------------------- MODULE LiveFeedProofs ---------------------------
(***************************************************************************)
(* Rooms opened over HTTP and the sockets that watch rooms, for every      *)
(* number of users, rooms, requests and sockets and for every limit: a     *)
(* request finds the one room it opened, sockets are counted, and the      *)
(* answer to a command shows what the command did.                         *)
(***************************************************************************)
EXTENDS LiveFeed, FiniteSetTheorems, TLAPS

USE WebRoomsAssumption, NoRoomAssumption, LiveFeedAssumption

-----------------------------------------------------------------------------
(* The rooms *)

\* A request that is being handled names its user, and its room once it has
\* one.
CallsAreSound ==
  \A c \in Calls :
    /\ call[c].op \in {"make", "look", "enter"} =>
         call[c].user \in Users /\ call[c].request \in Requests /\ call[c].place \in Places
    /\ call[c].op \in {"look", "enter"} => call[c].room \in Rooms

\* roomMu: one request at a time opens a room.
RoomMuIsMutex ==
  \A c, d \in Calls :
    call[c].op \in {"make", "look", "enter"} /\ call[d].op \in {"make", "look", "enter"} => c = d

\* Nothing changes between the look for a receipt and the room it lacks.
MakesAreNew ==
  \A c \in Calls : call[c].op = "make" => ReceiptOf(<<call[c].user, call[c].request>>) = {}

RoomsInv ==
  /\ rooms \in [Rooms -> RoomRecord \cup {None}]
  /\ receipts \subseteq Receipts
  /\ call \in [Calls -> CallRecord]
  /\ CallsAreSound
  /\ RoomMuIsMutex
  /\ MakesAreNew
  /\ RequestFindsItsRoom

\* A room that there is stays, with its key, and its revision does not fall.
RoomsGrow ==
  \A r \in Rooms : rooms[r] # None =>
    /\ rooms'[r] # None
    /\ rooms'[r].key = rooms[r].key
    /\ rooms'[r].revision >= rooms[r].revision

LEMMA RoomFields ==
  ASSUME NEW x \in RoomRecord
  PROVE  /\ x.key \in Keys \cup {None} /\ x.place \in Places /\ x.registered \subseteq Users
         /\ x.revision \in Nat /\ x.life \in Lives /\ x.stored \in BOOLEAN
BY DEF RoomRecord

\* A change of a room that there is.
LEMMA RoomChanges ==
  ASSUME RoomsInv, NEW r \in Rooms, rooms[r] # None, NEW x \in RoomRecord,
         rooms' = [rooms EXCEPT ![r] = x],
         x.key = rooms[r].key, x.revision >= rooms[r].revision
  PROVE  /\ rooms' \in [Rooms -> RoomRecord \cup {None}]
         /\ RoomsGrow
         /\ receipts' = receipts => RequestFindsItsRoom'
<1>1. rooms' \in [Rooms -> RoomRecord \cup {None}]
  BY DEF RoomsInv
<1>2. rooms'[r] = x /\ \A o \in Rooms \ {r} : rooms'[o] = rooms[o]
  BY DEF RoomsInv
<1>3. RoomsGrow
  <2>1. \A o \in Rooms \ {r} : rooms[o] # None => rooms[o].revision >= rooms[o].revision
    BY RoomFields DEF RoomsInv
  <2> QED
    BY <1>2, <2>1 DEF RoomsGrow
<1>4. ASSUME receipts' = receipts PROVE RequestFindsItsRoom'
  BY <1>2, <1>4 DEF RoomsInv, RequestFindsItsRoom
<1> QED
  BY <1>1, <1>3, <1>4

LEMMA PublishChanges ==
  ASSUME RoomsInv, NEW r \in Rooms, rooms[r] # None, NEW x \in RoomRecord,
         Publish(r, x), x.key = rooms[r].key, x.revision = rooms[r].revision
  PROVE  /\ rooms' \in [Rooms -> RoomRecord \cup {None}]
         /\ RoomsGrow
         /\ rooms'[r].revision = rooms[r].revision + 1
         /\ receipts' = receipts => RequestFindsItsRoom'
<1> DEFINE y == [x EXCEPT !.revision = @ + 1]
<1>1. x.revision \in Nat
  BY RoomFields
<1>2. y \in RoomRecord /\ y.key = x.key /\ y.revision = x.revision + 1
  BY <1>1 DEF RoomRecord
<1>3. rooms' = [rooms EXCEPT ![r] = y]
  BY DEF Publish
<1> HIDE DEF y
<1>4. y.revision >= rooms[r].revision
  BY <1>1, <1>2
<1>5. rooms'[r] = y
  BY <1>3 DEF RoomsInv
<1> QED
  BY <1>2, <1>3, <1>4, <1>5, RoomChanges

\* The requests being handled, when nothing but rooms changes.
LEMMA CallsKept ==
  ASSUME RoomsInv, UNCHANGED <<receipts, call>>
  PROVE  CallsAreSound' /\ RoomMuIsMutex' /\ MakesAreNew' /\ call' \in [Calls -> CallRecord] /\ receipts' \subseteq Receipts
BY DEF RoomsInv, CallsAreSound, RoomMuIsMutex, MakesAreNew, ReceiptOf

LEMMA Unchanged == rooms \in [Rooms -> RoomRecord \cup {None}] /\ rooms' = rooms => RoomsGrow
BY RoomFields DEF RoomsGrow

\* A request goes on to another stage, or returns.
LEMMA CallGoesOn ==
  ASSUME RoomsInv, NEW c \in Calls, NEW x \in CallRecord, call' = [call EXCEPT ![c] = x],
         receipts' = receipts,
         x.op \in {"make", "look", "enter"} =>
           /\ x.user \in Users /\ x.request \in Requests /\ x.place \in Places
           /\ call[c].op \in {"make", "look", "enter"} \/ RoomMuFree,
         x.op \in {"look", "enter"} => x.room \in Rooms,
         x.op = "make" => ReceiptOf(<<x.user, x.request>>) = {}
  PROVE  CallsAreSound' /\ RoomMuIsMutex' /\ MakesAreNew' /\ call' \in [Calls -> CallRecord] /\ receipts' \subseteq Receipts
<1>1. call'[c] = x /\ \A d \in Calls \ {c} : call'[d] = call[d]
  BY DEF RoomsInv
<1>2. call' \in [Calls -> CallRecord]
  BY DEF RoomsInv
<1>3. CallsAreSound'
  BY <1>1 DEF RoomsInv, CallsAreSound
<1>4. RoomMuIsMutex'
  BY <1>1 DEF RoomsInv, RoomMuIsMutex, RoomMuFree
<1>5. MakesAreNew'
  BY <1>1 DEF RoomsInv, MakesAreNew, ReceiptOf
<1> QED
  BY <1>2, <1>3, <1>4, <1>5 DEF RoomsInv
LEMMA MakeRoomKeeps ==
  ASSUME RoomsInv, NEW c \in Calls, MakeRoom(c)
  PROVE  RoomsInv' /\ RoomsGrow
<1> DEFINE key == <<call[c].user, call[c].request>>
           place == call[c].place
<1>1. /\ call[c].op = "make" /\ call[c].user \in Users /\ call[c].request \in Requests
      /\ place \in Places /\ call[c] \in CallRecord /\ ReceiptOf(key) = {}
  BY DEF MakeRoom, RoomsInv, CallsAreSound, MakesAreNew
<1>2. CASE Return(c) /\ UNCHANGED <<rooms, receipts>>
  <2>1. Idle \in CallRecord /\ Idle.op = "idle"
    BY DEF Idle, CallRecord
  <2>2. call' = [call EXCEPT ![c] = Idle]
    BY <1>2 DEF Return
  <2>3. CallsAreSound' /\ RoomMuIsMutex' /\ MakesAreNew' /\ call' \in [Calls -> CallRecord] /\ receipts' \subseteq Receipts
    BY <1>2, <2>1, <2>2, CallGoesOn
  <2>4. RoomsGrow
    BY <1>2, Unchanged DEF RoomsInv
  <2> QED
    BY <1>2, <2>3, <2>4 DEF RoomsInv, RequestFindsItsRoom
<1>3. ASSUME NEW r \in Rooms, rooms[r] = None, rooms' = [rooms EXCEPT ![r] = NewRoom(key, place)],
             receipts' = receipts \cup {[key |-> key, place |-> place, room |-> r]},
             call' = [call EXCEPT ![c].op = "look", ![c].room = r]
      PROVE  RoomsInv' /\ RoomsGrow
  <2> DEFINE n == NewRoom(key, place)
             e == [key |-> key, place |-> place, room |-> r]
             x == [call[c] EXCEPT !.op = "look", !.room = r]
  <2>1. n \in RoomRecord /\ n.key = key
    BY <1>1 DEF NewRoom, RoomRecord, Keys, Lives
  <2>2. e \in Receipts /\ e.key = key /\ e.room = r
    BY <1>1 DEF Receipts, Keys
  <2>3. /\ x \in CallRecord /\ x.op = "look" /\ x.room = r /\ x.user = call[c].user
        /\ x.request = call[c].request /\ x.place = place
    BY <1>1 DEF CallRecord
  <2>4. call' = [call EXCEPT ![c] = x] /\ receipts' = receipts \cup {e} /\ rooms' = [rooms EXCEPT ![r] = n]
    BY <1>3 DEF RoomsInv
  <2>5. ReceiptOf(key) = {}
    BY <1>1
  <2> HIDE DEF n, e, x
  <2>6. call'[c] = x /\ \A d \in Calls \ {c} : call'[d] = call[d]
    BY <2>4 DEF RoomsInv
  <2>7. rooms'[r] = n /\ \A o \in Rooms \ {r} : rooms'[o] = rooms[o]
    BY <2>4 DEF RoomsInv
  <2>8. rooms' \in [Rooms -> RoomRecord \cup {None}] /\ call' \in [Calls -> CallRecord] /\ receipts' \subseteq Receipts
    BY <2>1, <2>2, <2>3, <2>4 DEF RoomsInv
  <2>9. CallsAreSound'
    BY <1>1, <2>3, <2>6 DEF RoomsInv, CallsAreSound
  <2>10. RoomMuIsMutex'
    BY <1>1, <2>6 DEF RoomsInv, RoomMuIsMutex
  <2>11. MakesAreNew'
    <3>1. \A d \in Calls \ {c} : call[d].op # "make"
      BY <1>1 DEF RoomsInv, RoomMuIsMutex
    <3> QED
      BY <2>3, <2>6, <3>1 DEF MakesAreNew
  <2>12. RequestFindsItsRoom'
    <3>1. ASSUME NEW o \in Rooms, rooms'[o] # None, rooms'[o].key # None
          PROVE  \E y \in receipts' : y.key = rooms'[o].key /\ y.room = o
      BY <2>1, <2>2, <2>4, <2>7, <3>1 DEF RoomsInv, RequestFindsItsRoom
    <3>2. ASSUME NEW y \in receipts', NEW z \in receipts', y.key = z.key PROVE y = z
      BY <2>2, <2>4, <2>5, <3>2 DEF RoomsInv, RequestFindsItsRoom, ReceiptOf
    <3> QED
      BY <3>1, <3>2 DEF RequestFindsItsRoom
  <2>13. RoomsGrow
    <3>1. \A o \in Rooms : rooms[o] # None => o # r /\ rooms'[o] = rooms[o] /\ rooms[o].revision >= rooms[o].revision
      BY <1>3, <2>7, RoomFields DEF RoomsInv
    <3> QED
      BY <3>1 DEF RoomsGrow
  <2> QED
    BY <2>8, <2>9, <2>10, <2>11, <2>12, <2>13 DEF RoomsInv
<1> QED
  BY <1>2, <1>3 DEF MakeRoom

\* What other people and the service do to a room.
LEMMA ElsewhereKeeps ==
  ASSUME RoomsInv, NEW r \in Rooms,
         OpenElsewhere(r) \/ PlayElsewhere(r) \/ VoteElsewhere(r) \/ Forget(r) \/ Store(r)
  PROVE  RoomsInv' /\ RoomsGrow
<1>0. receipts' = receipts /\ call' = call
  BY DEF OpenElsewhere, PlayElsewhere, VoteElsewhere, Forget, Store
<1>1. CallsAreSound' /\ RoomMuIsMutex' /\ MakesAreNew' /\ call' \in [Calls -> CallRecord] /\ receipts' \subseteq Receipts
  BY <1>0, CallsKept
<1>2. SUFFICES rooms' \in [Rooms -> RoomRecord \cup {None}] /\ RoomsGrow /\ RequestFindsItsRoom'
  BY <1>1 DEF RoomsInv
<1>3. CASE OpenElsewhere(r)
  <2>1. PICK place \in Places \ {None} : rooms' = [rooms EXCEPT ![r] = NewRoom(None, place)]
    BY <1>3 DEF OpenElsewhere
  <2> DEFINE n == NewRoom(None, place)
  <2>2. n \in RoomRecord /\ n.key = None
    BY DEF NewRoom, RoomRecord, Lives
  <2>3. rooms[r] = None
    BY <1>3 DEF OpenElsewhere
  <2> HIDE DEF n
  <2>4. rooms'[r] = n /\ \A o \in Rooms \ {r} : rooms'[o] = rooms[o]
    BY <2>1 DEF RoomsInv, n
  <2>5. rooms' \in [Rooms -> RoomRecord \cup {None}]
    BY <2>1, <2>2 DEF RoomsInv, n
  <2>6. RoomsGrow
    <3>1. \A o \in Rooms : rooms[o] # None => o # r /\ rooms'[o] = rooms[o] /\ rooms[o].revision >= rooms[o].revision
      BY <2>3, <2>4, RoomFields DEF RoomsInv
    <3> QED
      BY <3>1 DEF RoomsGrow
  <2>7. RequestFindsItsRoom'
    BY <1>0, <2>2, <2>4 DEF RoomsInv, RequestFindsItsRoom
  <2> QED
    BY <2>5, <2>6, <2>7
<1>4. CASE PlayElsewhere(r)
  <2>1. rooms[r] # None /\ rooms[r] \in RoomRecord
    BY <1>4 DEF PlayElsewhere, IsOpen, RoomsInv
  <2>2. PICK life \in {"open", "finished", "cancelled"}, who \in {{}} \cup {{u} : u \in Users} :
          Publish(r, [rooms[r] EXCEPT !.life = life, !.registered = @ \cup who])
    BY <1>4 DEF PlayElsewhere
  <2> DEFINE x == [rooms[r] EXCEPT !.life = life, !.registered = @ \cup who]
  <2>3. x \in RoomRecord /\ x.key = rooms[r].key /\ x.revision = rooms[r].revision
    <3>1. who \in SUBSET Users /\ life \in Lives
      BY DEF Lives
    <3> QED
      BY <2>1, <3>1 DEF RoomRecord
  <2> HIDE DEF x
  <2>4. Publish(r, x)
    BY <2>2 DEF x
  <2> QED
    BY <1>0, <2>1, <2>3, <2>4, PublishChanges
<1>5. CASE Forget(r)
  <2> DEFINE x == [rooms[r] EXCEPT !.life = "gone"]
  <2>1. rooms[r] # None /\ rooms[r] \in RoomRecord /\ rooms' = [rooms EXCEPT ![r] = x]
    BY <1>5 DEF Forget, Exists, RoomsInv
  <2>2. x \in RoomRecord /\ x.key = rooms[r].key /\ x.revision = rooms[r].revision /\ x.revision \in Nat
    BY <2>1 DEF RoomRecord, Lives
  <2> HIDE DEF x
  <2>3. x.revision >= rooms[r].revision
    BY <2>2
  <2> QED
    BY <1>0, <2>1, <2>2, <2>3, RoomChanges
<1>6. CASE Store(r)
  <2> DEFINE x == [rooms[r] EXCEPT !.stored = TRUE]
  <2>1. rooms[r] # None /\ rooms[r] \in RoomRecord /\ rooms' = [rooms EXCEPT ![r] = x]
    BY <1>6 DEF Store, RoomsInv
  <2>2. x \in RoomRecord /\ x.key = rooms[r].key /\ x.revision = rooms[r].revision /\ x.revision \in Nat
    BY <2>1 DEF RoomRecord
  <2> HIDE DEF x
  <2>3. x.revision >= rooms[r].revision
    BY <2>2
  <2> QED
    BY <1>0, <2>1, <2>2, <2>3, RoomChanges
<1>7. CASE VoteElsewhere(r)
  <2>1. rooms[r] # None /\ rooms[r] \in RoomRecord /\ Publish(r, rooms[r])
    BY <1>7 DEF VoteElsewhere, Vote, MayVote, RoomsInv
  <2> QED
    BY <1>0, <2>1, PublishChanges
<1> QED
  BY <1>3, <1>4, <1>5, <1>6, <1>7

\* The handling of a request, but for the making of its room.
LEMMA RequestKeeps ==
  ASSUME RoomsInv, NEW c \in Calls,
         OpenRoom(c) \/ LookAtRoom(c) \/ EnterRoom(c) \/ JoinInvite(c) \/ SignalJoin(c)
  PROVE  RoomsInv' /\ RoomsGrow
<1>0. receipts' = receipts
  BY DEF OpenRoom, LookAtRoom, EnterRoom, JoinInvite, SignalJoin
<1> DEFINE CallsOK == CallsAreSound' /\ RoomMuIsMutex' /\ MakesAreNew' /\ call' \in [Calls -> CallRecord] /\ receipts' \subseteq Receipts
           RoomsOK == rooms' \in [Rooms -> RoomRecord \cup {None}] /\ RoomsGrow /\ RequestFindsItsRoom'
<1>1. SUFFICES CallsOK /\ RoomsOK
  BY DEF RoomsInv
<1>2. rooms' = rooms => RoomsOK
  BY <1>0, Unchanged DEF RoomsInv, RequestFindsItsRoom
<1>3. Return(c) => CallsOK
  <2>1. Idle \in CallRecord /\ Idle.op = "idle"
    BY DEF Idle, CallRecord
  <2> QED
    BY <1>0, <2>1, CallGoesOn DEF Return
<1>4. ASSUME NEW r \in Rooms, IsOpen(r), NEW who \in SUBSET Users,
             Publish(r, [rooms[r] EXCEPT !.registered = @ \cup who])
      PROVE  RoomsOK
  <2> DEFINE x == [rooms[r] EXCEPT !.registered = @ \cup who]
  <2>1. rooms[r] # None /\ rooms[r] \in RoomRecord
    BY <1>4 DEF IsOpen, RoomsInv
  <2>2. x \in RoomRecord /\ x.key = rooms[r].key /\ x.revision = rooms[r].revision
    BY <2>1 DEF RoomRecord
  <2>3. Publish(r, x)
    BY <1>4
  <2> HIDE DEF x
  <2> QED
    BY <1>0, <2>1, <2>2, <2>3, PublishChanges
<1> HIDE DEF RoomsOK
<1>5. CASE OpenRoom(c)
  <2>1. PICK u \in Users, q \in Requests, place \in Places :
          \/ \E x \in ReceiptOf(<<u, q>>) :
               call' = [call EXCEPT ![c] = [op |-> "look", user |-> u, request |-> q, place |-> place,
                                            room |-> x.room, revision |-> 0]]
          \/ /\ ReceiptOf(<<u, q>>) = {}
             /\ call' = [call EXCEPT ![c] = [op |-> "make", user |-> u, request |-> q, place |-> place,
                                             room |-> None, revision |-> 0]]
    BY <1>5 DEF OpenRoom
  <2>2. rooms' = rooms /\ RoomMuFree
    BY <1>5 DEF OpenRoom
  <2>3. ASSUME NEW x \in ReceiptOf(<<u, q>>),
               call' = [call EXCEPT ![c] = [op |-> "look", user |-> u, request |-> q, place |-> place,
                                            room |-> x.room, revision |-> 0]]
        PROVE  CallsOK
    <3> DEFINE y == [op |-> "look", user |-> u, request |-> q, place |-> place,
                     room |-> x.room, revision |-> 0]
    <3>1. x.room \in Rooms
      BY DEF ReceiptOf, RoomsInv, Receipts
    <3>2. /\ y \in CallRecord /\ y.op = "look" /\ y.user \in Users /\ y.request \in Requests
          /\ y.place \in Places /\ y.room \in Rooms
      BY <3>1 DEF CallRecord
    <3>3. call' = [call EXCEPT ![c] = y]
      BY <2>3
    <3> HIDE DEF y
    <3> QED
      BY <1>0, <2>2, <3>2, <3>3, CallGoesOn
  <2>4. ASSUME ReceiptOf(<<u, q>>) = {},
               call' = [call EXCEPT ![c] = [op |-> "make", user |-> u, request |-> q, place |-> place,
                                            room |-> None, revision |-> 0]]
        PROVE  CallsOK
    <3> DEFINE y == [op |-> "make", user |-> u, request |-> q, place |-> place,
                     room |-> None, revision |-> 0]
    <3>1. /\ y \in CallRecord /\ y.op = "make" /\ y.user = u /\ y.request = q /\ y.place \in Places
      BY DEF CallRecord
    <3>2. call' = [call EXCEPT ![c] = y]
      BY <2>4
    <3> HIDE DEF y
    <3>3. ReceiptOf(<<y.user, y.request>>) = {}
      BY <2>4, <3>1
    <3> QED
      BY <1>0, <2>2, <3>1, <3>2, <3>3, CallGoesOn
  <2> QED
    BY <1>2, <2>1, <2>2, <2>3, <2>4
<1>6. CASE LookAtRoom(c)
  <2> DEFINE r == call[c].room
             y == [call[c] EXCEPT !.op = "enter", !.revision = rooms[r].revision]
  <2>1. /\ r \in Rooms /\ call[c] \in CallRecord /\ call[c].op = "look" /\ rooms' = rooms
        /\ call[c].user \in Users /\ call[c].request \in Requests /\ call[c].place \in Places
    BY <1>6 DEF LookAtRoom, RoomsInv, CallsAreSound
  <2>2. ASSUME IsOpen(r), call' = [call EXCEPT ![c].op = "enter", ![c].revision = rooms[r].revision]
        PROVE  CallsOK
    <3>1. rooms[r].revision \in Nat
      BY <2>1, <2>2, RoomFields DEF IsOpen, RoomsInv
    <3>2. /\ y \in CallRecord /\ y.op = "enter" /\ y.user \in Users /\ y.request \in Requests
          /\ y.place \in Places /\ y.room \in Rooms
      BY <2>1, <3>1 DEF CallRecord
    <3>3. call' = [call EXCEPT ![c] = y]
      BY <2>2 DEF RoomsInv
    <3> HIDE DEF y
    <3> QED
      BY <1>0, <2>1, <3>2, <3>3, CallGoesOn
  <2> QED
    BY <1>2, <1>3, <1>6, <2>1, <2>2 DEF LookAtRoom
<1>7. CASE EnterRoom(c)
  <2> DEFINE r == call[c].room
             u == call[c].user
  <2>1. r \in Rooms /\ {u} \in SUBSET Users
    BY <1>7 DEF EnterRoom, RoomsInv, CallsAreSound
  <2>2. Return(c) /\ (rooms' = rooms \/ (IsOpen(r) /\ Publish(r, [rooms[r] EXCEPT !.registered = @ \cup {u}])))
    BY <1>7 DEF EnterRoom
  <2> HIDE DEF r, u
  <2> QED
    BY <1>2, <1>3, <1>4, <2>1, <2>2
<1>8. CASE JoinInvite(c)
  <2>1. PICK u \in Users, r \in Rooms :
          /\ IsOpen(r)
          /\ rooms' = rooms \/ Publish(r, [rooms[r] EXCEPT !.registered = @ \cup {u}])
          /\ call' = [call EXCEPT ![c] = [Idle EXCEPT !.op = "signal", !.user = u, !.room = r]]
    BY <1>8 DEF JoinInvite
  <2> DEFINE y == [Idle EXCEPT !.op = "signal", !.user = u, !.room = r]
  <2>2. y \in CallRecord /\ y.op = "signal"
    BY DEF Idle, CallRecord
  <2>3. call' = [call EXCEPT ![c] = y] /\ {u} \in SUBSET Users
    BY <2>1
  <2> HIDE DEF y
  <2>4. CallsOK
    BY <1>0, <2>2, <2>3, CallGoesOn
  <2> QED
    BY <1>2, <1>4, <2>1, <2>3, <2>4
<1>9. CASE SignalJoin(c)
  BY <1>2, <1>3, <1>9 DEF SignalJoin
<1> QED
  BY <1>5, <1>6, <1>7, <1>8, <1>9

LEMMA RoomsKeep == RoomsInv /\ RoomsNext => RoomsInv' /\ RoomsGrow
<1>1. ASSUME RoomsInv, Announce PROVE RoomsInv' /\ RoomsGrow
  <2>1. UNCHANGED <<rooms, receipts, call>>
    BY <1>1 DEF Announce
  <2> QED
    BY <1>1, <2>1, CallsKept, Unchanged DEF RoomsInv, RequestFindsItsRoom
<1> QED
  BY <1>1, ElsewhereKeeps, MakeRoomKeeps, RequestKeeps DEF RoomsNext
-----------------------------------------------------------------------------
(* The sockets *)

\* A socket watches a room that there is, or was.
SocketsFollow ==
  \A s \in Watchers : Watches(s) => socket[s].room \in Rooms /\ rooms[socket[s].room] # None

\* A command that was accepted is in the room before the next view is read,
\* and in that view from then on.
EffectIsKnown ==
  \A s \in Watchers :
    /\ At(s, "public") => socket[s].effect <= rooms[socket[s].room].revision
    /\ At(s, "hand") \/ At(s, "write") => socket[s].effect <= socket[s].view.revision
    /\ At(s, "idle") => socket[s].effect = 0

SocketsAreFinite == \A u \in Users : IsFiniteSet(SocketsOf(u))

FeedInv ==
  /\ FeedTypeOK
  /\ RoomsInv
  /\ SocketsFollow
  /\ EffectIsKnown
  /\ SocketsAreFinite
  /\ SocketsAreCounted

LEMMA InitFeed == Init => FeedInv
<1> SUFFICES ASSUME Init PROVE FeedInv
  OBVIOUS
<1>1. Off \in SocketRecord /\ Off.stage = "off" /\ Off.effect = 0 /\ Blank \in Views
  BY DEF Off, SocketRecord, Stages, Blank, Views
<1>2. Idle \in CallRecord /\ Idle.op = "idle"
  BY DEF Idle, CallRecord
<1>3. RoomsInv
  BY <1>2 DEF Init, InitRooms, RoomsInv, CallsAreSound, RoomMuIsMutex, MakesAreNew, RequestFindsItsRoom
<1>4. \A s \in Watchers : socket[s] = Off
  BY DEF Init
<1>5. \A u \in Users : SocketsOf(u) = {} /\ wsUsers[u] = 0
  BY <1>1, <1>4 DEF Init, SocketsOf, Watches, At
<1>6. SocketsAreFinite /\ SocketsAreCounted
  <2>1. IsFiniteSet({}) /\ Cardinality({}) = 0 /\ 0 <= Limit
    BY FS_EmptySet
  <2> QED
    BY <1>5, <2>1 DEF SocketsAreFinite, SocketsAreCounted
<1>7. SocketsFollow /\ EffectIsKnown
  BY <1>1, <1>4 DEF SocketsFollow, EffectIsKnown, Watches, At
<1>8. FeedTypeOK
  BY <1>1, <1>3, <1>4 DEF FeedTypeOK, RoomsTypeOK, RoomsInv, Init, InitRooms, Watches, At
<1> QED
  BY <1>3, <1>6, <1>7, <1>8 DEF FeedInv

\* A socket goes from one stage of its loop to the next.
LEMMA SocketGoes ==
  ASSUME FeedInv, RoomsInv', RoomsGrow, NEW s \in Watchers, NEW y \in SocketRecord,
         socket' = [socket EXCEPT ![s] = y], Watches(s),
         y.stage # "off", y.room = socket[s].room,
         y.stage = "public" => y.effect <= rooms'[y.room].revision,
         y.stage \in {"hand", "write"} => y.effect <= y.view.revision,
         y.stage = "idle" => y.effect = 0,
         UNCHANGED <<subscribers, wsUsers>>, changes' \subseteq subscribers,
         board' \in [Watchers -> Views], unconfirmed' \subseteq Watchers, faults' \in 0 .. MaxFaults
  PROVE  FeedInv'
<1>1. socket'[s] = y /\ \A o \in Watchers \ {s} : socket'[o] = socket[o]
  BY DEF FeedInv, FeedTypeOK
<1>2. socket' \in [Watchers -> SocketRecord]
  BY DEF FeedInv, FeedTypeOK
<1>3. \A o \in Watchers : Watches(o)' <=> Watches(o)
  BY <1>1 DEF Watches, At
<1>4. \A u \in Users : SocketsOf(u)' = SocketsOf(u)
  BY <1>3 DEF SocketsOf
<1>5. SocketsFollow'
  BY <1>1, <1>3 DEF FeedInv, SocketsFollow, RoomsGrow
<1>6. EffectIsKnown'
  <2>1. ASSUME NEW o \in Watchers \ {s}, At(o, "public")
        PROVE  socket[o].effect <= rooms'[socket[o].room].revision
    <3>1. socket[o].room \in Rooms /\ rooms[socket[o].room] # None
      BY <2>1 DEF FeedInv, SocketsFollow, Watches, At
    <3>2. /\ socket[o].effect <= rooms[socket[o].room].revision
          /\ rooms'[socket[o].room].revision >= rooms[socket[o].room].revision
      BY <2>1, <3>1 DEF FeedInv, EffectIsKnown, RoomsGrow
    <3>3. rooms[socket[o].room].revision \in Nat /\ socket[o].effect \in Nat
      BY <3>1, RoomFields DEF FeedInv, RoomsInv, FeedTypeOK, SocketRecord
    <3>4. rooms'[socket[o].room].revision \in Nat
      BY <3>1, RoomFields DEF RoomsInv, RoomsGrow
    <3> QED
      BY <3>2, <3>3, <3>4
  <2> QED
    BY <1>1, <2>1 DEF FeedInv, EffectIsKnown, At
<1>7. SocketsAreFinite' /\ SocketsAreCounted'
  BY <1>4 DEF FeedInv, SocketsAreFinite, SocketsAreCounted
<1>8. FeedTypeOK'
  BY <1>2, <1>3 DEF FeedInv, FeedTypeOK, RoomsTypeOK, RoomsInv
<1> QED
  BY <1>5, <1>6, <1>7, <1>8 DEF FeedInv

\* The rooms go on, and may signal the sockets.
LEMMA RoomsGoOn ==
  ASSUME FeedInv, RoomsInv', RoomsGrow, UNCHANGED <<subscribers, feed>>,
         changes' \subseteq subscribers
  PROVE  FeedInv'
<1>1. \A o \in Watchers : Watches(o)' <=> Watches(o)
  BY DEF Watches, At, feed
<1>2. \A u \in Users : SocketsOf(u)' = SocketsOf(u)
  BY <1>1 DEF SocketsOf
<1>3. SocketsFollow'
  BY <1>1 DEF FeedInv, SocketsFollow, RoomsGrow, feed
<1>4. EffectIsKnown'
  <2>1. ASSUME NEW o \in Watchers, At(o, "public")
        PROVE  socket[o].effect <= rooms'[socket[o].room].revision
    <3>1. socket[o].room \in Rooms /\ rooms[socket[o].room] # None
      BY <2>1 DEF FeedInv, SocketsFollow, Watches, At
    <3>2. /\ socket[o].effect <= rooms[socket[o].room].revision
          /\ rooms'[socket[o].room].revision >= rooms[socket[o].room].revision
      BY <2>1, <3>1 DEF FeedInv, EffectIsKnown, RoomsGrow
    <3>3. rooms[socket[o].room].revision \in Nat /\ socket[o].effect \in Nat
      BY <3>1, RoomFields DEF FeedInv, RoomsInv, FeedTypeOK, SocketRecord
    <3>4. rooms'[socket[o].room].revision \in Nat
      BY <3>1, RoomFields DEF RoomsInv, RoomsGrow
    <3> QED
      BY <3>2, <3>3, <3>4
  <2> QED
    BY <2>1 DEF FeedInv, EffectIsKnown, At, feed
<1>5. SocketsAreFinite' /\ SocketsAreCounted'
  BY <1>2 DEF FeedInv, SocketsAreFinite, SocketsAreCounted, feed
<1>6. FeedTypeOK'
  BY <1>1 DEF FeedInv, FeedTypeOK, RoomsTypeOK, RoomsInv, feed
<1> QED
  BY <1>3, <1>4, <1>5, <1>6 DEF FeedInv

\* A socket ends: its user is counted for one fewer.
LEMMA LeaveKeeps ==
  ASSUME FeedInv, UNCHANGED <<web, faults>>, NEW s \in Watchers, Watches(s), Leave(s),
         changes' = changes \ {s}
  PROVE  FeedInv'
<1> DEFINE u == OwnerOf[s]
<1>1. Off \in SocketRecord /\ Off.stage = "off" /\ Blank \in Views
  BY DEF Off, SocketRecord, Stages, Blank, Views
<1>2. /\ socket'[s] = Off /\ (\A o \in Watchers \ {s} : socket'[o] = socket[o])
      /\ socket' \in [Watchers -> SocketRecord] /\ board' \in [Watchers -> Views]
  BY <1>1 DEF FeedInv, FeedTypeOK, Leave
<1>3. ~Watches(s)' /\ \A o \in Watchers \ {s} : Watches(o)' <=> Watches(o)
  BY <1>1, <1>2 DEF Watches, At
<1>4. u \in Users /\ s \in SocketsOf(u)
  BY DEF SocketsOf
<1>5. SocketsOf(u)' = SocketsOf(u) \ {s} /\ \A v \in Users \ {u} : SocketsOf(v)' = SocketsOf(v)
  BY <1>3 DEF SocketsOf
<1>6. /\ IsFiniteSet(SocketsOf(u)) /\ wsUsers[u] = Cardinality(SocketsOf(u)) /\ wsUsers[u] <= Limit
      /\ wsUsers[u] \in Nat
  BY <1>4 DEF FeedInv, SocketsAreFinite, SocketsAreCounted, FeedTypeOK
<1>7. /\ IsFiniteSet(SocketsOf(u) \ {s})
      /\ Cardinality(SocketsOf(u) \ {s}) = wsUsers[u] - 1 /\ wsUsers[u] - 1 \in Nat
  <2>1. IsFiniteSet(SocketsOf(u) \ {s}) /\ Cardinality(SocketsOf(u) \ {s}) = Cardinality(SocketsOf(u)) - 1
    BY <1>4, <1>6, FS_RemoveElement
  <2>2. Cardinality(SocketsOf(u) \ {s}) \in Nat
    BY <2>1, FS_CardinalityType
  <2> QED
    BY <1>6, <2>1, <2>2
<1>8. wsUsers' = [wsUsers EXCEPT ![u] = wsUsers[u] - 1]
  BY DEF Leave
<1>9. wsUsers' \in [Users -> Nat] /\ wsUsers'[u] = wsUsers[u] - 1 /\ \A v \in Users \ {u} : wsUsers'[v] = wsUsers[v]
  BY <1>4, <1>7, <1>8 DEF FeedInv, FeedTypeOK
<1>10. UNCHANGED <<rooms, receipts, call>> /\ RoomsInv'
  BY CallsKept DEF FeedInv, RoomsInv, RequestFindsItsRoom, web
<1> HIDE DEF u
<1>11. SocketsAreFinite' /\ SocketsAreCounted'
  <2>1. wsUsers'[u] <= Limit
    BY <1>6, <1>9
  <2> QED
    BY <1>5, <1>7, <1>9, <2>1 DEF FeedInv, SocketsAreFinite, SocketsAreCounted
<1>12. SocketsFollow' /\ EffectIsKnown'
  BY <1>1, <1>2, <1>10 DEF FeedInv, SocketsFollow, EffectIsKnown, Watches, At
<1>13. FeedTypeOK'
  BY <1>2, <1>3, <1>9, <1>10 DEF FeedInv, FeedTypeOK, RoomsTypeOK, RoomsInv, Leave
<1> QED
  BY <1>10, <1>11, <1>12, <1>13 DEF FeedInv

\* A socket begins: its user, who was below the limit, is counted for it.
LEMMA ConnectKeeps ==
  ASSUME FeedInv, NEW s \in Watchers, Connect(s)
  PROVE  FeedInv'
<1> DEFINE u == OwnerOf[s]
<1>1. PICK r \in Rooms : Exists(r) /\ socket' = [socket EXCEPT ![s] = [Off EXCEPT !.stage = "public", !.room = r]]
  BY DEF Connect
<1> DEFINE y == [Off EXCEPT !.stage = "public", !.room = r]
<1>2. y \in SocketRecord /\ y.stage = "public" /\ y.room = r /\ y.effect = 0
  BY DEF Off, SocketRecord, Stages, Blank, Views
<1> HIDE DEF y
<1>3. /\ socket'[s] = y /\ (\A o \in Watchers \ {s} : socket'[o] = socket[o])
      /\ socket' \in [Watchers -> SocketRecord]
  BY <1>1, <1>2 DEF FeedInv, FeedTypeOK, y
<1>4. Watches(s)' /\ ~Watches(s) /\ \A o \in Watchers \ {s} : Watches(o)' <=> Watches(o)
  BY <1>2, <1>3 DEF Watches, At, Connect
<1>5. u \in Users /\ s \notin SocketsOf(u)
  BY <1>4 DEF SocketsOf
<1>6. SocketsOf(u)' = SocketsOf(u) \cup {s} /\ \A v \in Users \ {u} : SocketsOf(v)' = SocketsOf(v)
  BY <1>4 DEF SocketsOf
<1>7. /\ IsFiniteSet(SocketsOf(u)) /\ wsUsers[u] = Cardinality(SocketsOf(u)) /\ wsUsers[u] < Limit
      /\ wsUsers[u] \in Nat
  BY <1>5 DEF FeedInv, SocketsAreFinite, SocketsAreCounted, FeedTypeOK, Connect, MayCount
<1>8. IsFiniteSet(SocketsOf(u) \cup {s}) /\ Cardinality(SocketsOf(u) \cup {s}) = wsUsers[u] + 1
  BY <1>5, <1>7, FS_AddElement
<1>9. wsUsers' = [wsUsers EXCEPT ![u] = wsUsers[u] + 1]
  BY DEF Connect
<1>10. wsUsers' \in [Users -> Nat] /\ wsUsers'[u] = wsUsers[u] + 1 /\ \A v \in Users \ {u} : wsUsers'[v] = wsUsers[v]
  BY <1>5, <1>7, <1>9 DEF FeedInv, FeedTypeOK
<1>11. UNCHANGED <<rooms, receipts, call, changes, board, unconfirmed, faults>> /\ RoomsInv'
  BY CallsKept DEF FeedInv, RoomsInv, RequestFindsItsRoom, Connect, web
<1> HIDE DEF u
<1>12. SocketsAreFinite' /\ SocketsAreCounted'
  <2>1. wsUsers'[u] <= Limit
    BY <1>7, <1>10
  <2> QED
    BY <1>6, <1>8, <1>10, <2>1 DEF FeedInv, SocketsAreFinite, SocketsAreCounted
<1>13. rooms[r] # None /\ rooms[r].revision \in Nat
  BY <1>1, RoomFields DEF Exists, FeedInv, RoomsInv
<1>14. SocketsFollow' /\ EffectIsKnown'
  BY <1>2, <1>3, <1>11, <1>13 DEF FeedInv, SocketsFollow, EffectIsKnown, Watches, At
<1>15. FeedTypeOK'
  BY <1>3, <1>4, <1>10, <1>11 DEF FeedInv, FeedTypeOK, RoomsTypeOK, RoomsInv, Connect
<1> QED
  BY <1>11, <1>12, <1>14, <1>15 DEF FeedInv
-----------------------------------------------------------------------------
(* The loop of a socket *)

LEMMA SocketFields ==
  ASSUME FeedInv, NEW s \in Watchers
  PROVE  /\ socket[s] \in SocketRecord
         /\ socket[s].view \in Views /\ socket[s].view.revision \in Nat /\ socket[s].effect \in Nat
         /\ Watches(s) =>
              /\ socket[s].room \in Rooms
              /\ rooms[socket[s].room] \in RoomRecord /\ rooms[socket[s].room] # None
BY DEF FeedInv, FeedTypeOK, SocketRecord, Views, SocketsFollow, RoomsInv

LEMMA QuietRooms == RoomsInv /\ UNCHANGED web => RoomsInv' /\ RoomsGrow
BY CallsKept, Unchanged DEF RoomsInv, RequestFindsItsRoom, web

\* A socket that does not touch the rooms.
LEMMA SocketTurns ==
  ASSUME FeedInv, UNCHANGED web, NEW s \in Watchers, NEW y \in SocketRecord,
         socket' = [socket EXCEPT ![s] = y], Watches(s),
         y.stage # "off", y.room = socket[s].room,
         y.stage = "public" => y.effect = 0,
         y.stage \in {"hand", "write"} => y.effect <= y.view.revision,
         y.stage = "idle" => y.effect = 0,
         UNCHANGED <<subscribers, wsUsers>>, changes' \subseteq changes,
         board' \in [Watchers -> Views], unconfirmed' \subseteq Watchers, faults' \in 0 .. MaxFaults
  PROVE  FeedInv'
<1>1. RoomsInv' /\ RoomsGrow
  BY QuietRooms DEF FeedInv
<1>2. y.stage = "public" => y.effect <= rooms'[y.room].revision
  <2>1. rooms'[y.room].revision \in Nat
    BY SocketFields, RoomFields DEF web
  <2> QED
    BY <2>1
<1>3. changes' \subseteq subscribers
  BY DEF FeedInv, FeedTypeOK
<1> QED
  BY <1>1, <1>2, <1>3, SocketGoes

LEMMA ReadPublicKeeps ==
  ASSUME FeedInv, NEW s \in Watchers, ReadPublic(s)
  PROVE  FeedInv'
<1> DEFINE r == socket[s].room
           v == ViewOf(r)
           y == [socket[s] EXCEPT !.stage = "hand", !.view = v]
<1>1. Watches(s) /\ At(s, "public")
  BY DEF ReadPublic, At, Watches
<1>2. CASE Exists(r) /\ socket' = [socket EXCEPT ![s].stage = "hand", ![s].view = v]
           /\ UNCHANGED <<subscribers, changes, board, unconfirmed, wsUsers>>
  <2>1. socket[s] \in SocketRecord /\ r \in Rooms /\ rooms[r] \in RoomRecord
    BY <1>1, SocketFields
  <2>2. v \in Views /\ v.revision = rooms[r].revision
    <3>1. rooms[r].life \in {"open", "finished", "cancelled"} /\ rooms[r].revision \in Nat
      BY <1>2, <2>1, RoomFields DEF Exists, Lives
    <3> QED
      BY <3>1 DEF ViewOf, Views
  <2>3. socket[s].effect <= rooms[r].revision
    BY <1>1 DEF FeedInv, EffectIsKnown
  <2> HIDE DEF v
  <2>4. /\ y \in SocketRecord /\ y.stage = "hand" /\ y.room = socket[s].room /\ y.view = v
        /\ y.effect = socket[s].effect
    BY <2>1, <2>2 DEF SocketRecord, Stages
  <2>5. socket' = [socket EXCEPT ![s] = y]
    BY <1>2 DEF FeedInv, FeedTypeOK
  <2> HIDE DEF y
  <2>6. y.effect <= y.view.revision
    BY <2>2, <2>3, <2>4
  <2> QED
    BY <1>1, <1>2, <2>4, <2>5, <2>6, SocketTurns DEF ReadPublic, FeedInv, FeedTypeOK
<1>3. CASE Leave(s) /\ changes' = changes \ {s}
  BY <1>1, <1>3, LeaveKeeps DEF ReadPublic
<1> QED
  BY <1>2, <1>3 DEF ReadPublic

LEMMA ReadRestKeeps ==
  ASSUME FeedInv, NEW s \in Watchers, ReadRest(s)
  PROVE  FeedInv'
<1>1. Watches(s) /\ At(s, "hand") /\ UNCHANGED web
  BY DEF ReadRest, At, Watches
<1>2. ASSUME NEW result \in BOOLEAN,
             socket' = [socket EXCEPT ![s].stage = "write", ![s].view.result = result],
             UNCHANGED <<subscribers, changes, board, unconfirmed, wsUsers>>,
             faults' \in 0 .. MaxFaults
      PROVE  FeedInv'
  <2> DEFINE v == [socket[s].view EXCEPT !.result = result]
             y == [socket[s] EXCEPT !.stage = "write", !.view = v]
  <2>1. socket[s] \in SocketRecord /\ socket[s].view \in Views
    BY SocketFields
  <2>2. /\ y \in SocketRecord /\ y.stage = "write" /\ y.room = socket[s].room
        /\ y.view.revision = socket[s].view.revision /\ y.effect = socket[s].effect
    BY <2>1 DEF SocketRecord, Stages, Views
  <2>3. socket' = [socket EXCEPT ![s] = y]
    <3>1. socket'[s] = y
      BY <1>2, <2>1 DEF FeedInv, FeedTypeOK
    <3>2. \A o \in Watchers \ {s} : socket'[o] = socket[o]
      BY <1>2 DEF FeedInv, FeedTypeOK
    <3>3. socket' \in [Watchers -> {socket'[o] : o \in Watchers}]
      <4> DEFINE f == [socket EXCEPT ![s].stage = "write"]
                 g == [f EXCEPT ![s].view.result = result]
      <4>1. f \in [Watchers -> {f[o] : o \in Watchers}]
        BY DEF FeedInv, FeedTypeOK
      <4>2. socket' = g
        BY <1>2, Zenon
      <4> HIDE DEF f
      <4>3. g \in [Watchers -> {g[o] : o \in Watchers}]
        BY <4>1
      <4> QED
        BY <4>2, <4>3, Zenon
    <3> HIDE DEF y
    <3> QED
      BY <3>1, <3>2, <3>3 DEF FeedInv, FeedTypeOK
  <2> HIDE DEF y
  <2>4. y.effect <= y.view.revision
    BY <1>1, <2>2 DEF FeedInv, EffectIsKnown
  <2> QED
    BY <1>1, <1>2, <2>2, <2>3, <2>4, SocketTurns DEF FeedInv, FeedTypeOK
<1>3. ASSUME Leave(s), changes' = changes \ {s}, UNCHANGED faults PROVE FeedInv'
  BY <1>1, <1>3, LeaveKeeps
<1>4. faults \in 0 .. MaxFaults /\ (faults < MaxFaults => faults + 1 \in 0 .. MaxFaults)
  BY DEF FeedInv, FeedTypeOK
<1>5. rooms[socket[s].room].stored \in BOOLEAN
  BY <1>1, SocketFields, RoomFields
<1> QED
  BY <1>2, <1>3, <1>4, <1>5 DEF ReadRest

LEMMA WriteKeeps ==
  ASSUME FeedInv, NEW s \in Watchers, Write(s)
  PROVE  FeedInv'
<1> DEFINE y == [socket[s] EXCEPT !.stage = "idle", !.effect = 0, !.view = Blank]
<1>1. Watches(s)
  BY DEF Write, At, Watches
<1>2. socket[s] \in SocketRecord /\ socket[s].view \in Views
  BY SocketFields
<1>3. Blank \in Views
  BY DEF Blank, Views
<1>4. y \in SocketRecord /\ y.stage = "idle" /\ y.room = socket[s].room /\ y.effect = 0
  BY <1>2, <1>3 DEF SocketRecord, Stages
<1>5. socket' = [socket EXCEPT ![s] = y]
  BY DEF Write, FeedInv, FeedTypeOK
<1>6. board' \in [Watchers -> Views] /\ unconfirmed' \subseteq Watchers
  BY <1>2 DEF Write, FeedInv, FeedTypeOK
<1> HIDE DEF y
<1> QED
  BY <1>1, <1>4, <1>5, <1>6, SocketTurns DEF Write, FeedInv, FeedTypeOK

LEMMA WakeKeeps ==
  ASSUME FeedInv, NEW s \in Watchers, Wake(s) \/ Beat(s)
  PROVE  FeedInv'
<1> DEFINE y == [socket[s] EXCEPT !.stage = "public"]
<1>1. Watches(s) /\ At(s, "idle")
  BY DEF Wake, Beat, At, Watches
<1>2. socket[s].effect = 0
  BY <1>1 DEF FeedInv, EffectIsKnown
<1>3. y \in SocketRecord /\ y.stage = "public" /\ y.room = socket[s].room /\ y.effect = 0
  BY <1>2, SocketFields DEF SocketRecord, Stages
<1>4. socket' = [socket EXCEPT ![s] = y]
  BY DEF Wake, Beat, Goes, FeedInv, FeedTypeOK
<1> HIDE DEF y
<1>5. /\ UNCHANGED <<web, subscribers, wsUsers, board, unconfirmed, faults>>
      /\ changes' \subseteq changes
  BY DEF Wake, Beat
<1> QED
  BY <1>1, <1>3, <1>4, <1>5, SocketTurns DEF FeedInv, FeedTypeOK

LEMMA CommandKeeps ==
  ASSUME FeedInv, NEW s \in Watchers, Command(s)
  PROVE  FeedInv'
<1>1. Watches(s) /\ RoomsInv
  BY DEF Command, At, Watches, FeedInv
<1>2. PICK r \in Rooms : r = socket[s].room
  BY <1>1, SocketFields
<1>3. /\ socket[s] \in SocketRecord /\ rooms[r] \in RoomRecord /\ rooms[r] # None
      /\ rooms[r].revision \in Nat
  BY <1>1, <1>2, SocketFields, RoomFields
<1>a. ASSUME NEW n \in Nat, Answers(s, n), RoomsInv', RoomsGrow, n <= rooms'[r].revision,
             changes' \subseteq subscribers
      PROVE  FeedInv'
  <2> DEFINE y == [socket[s] EXCEPT !.stage = "public", !.effect = n]
  <2>1. y \in SocketRecord /\ y.stage = "public" /\ y.room = socket[s].room /\ y.effect = n
    BY <1>3 DEF SocketRecord, Stages
  <2>2. socket' = [socket EXCEPT ![s] = y]
    BY <1>a DEF Answers, FeedInv, FeedTypeOK
  <2> HIDE DEF y
  <2>3. UNCHANGED <<subscribers, wsUsers, board, unconfirmed, faults>>
    BY DEF Command
  <2> QED
    BY <1>1, <1>2, <1>a, <2>1, <2>2, <2>3, SocketGoes DEF FeedInv, FeedTypeOK
<1>4. ASSUME NEW x \in RoomRecord, x.key = rooms[r].key, x.revision = rooms[r].revision,
             Publish(r, x), Answers(s, rooms[r].revision + 1)
      PROVE  FeedInv'
  <2>2. receipts' = receipts /\ call' = call
    BY DEF Command
  <2>3. /\ rooms' \in [Rooms -> RoomRecord \cup {None}] /\ RoomsGrow /\ RequestFindsItsRoom'
        /\ rooms'[r].revision = rooms[r].revision + 1
    BY <1>1, <1>3, <1>4, <2>2, PublishChanges
  <2>4. RoomsInv'
    BY <1>1, <2>2, <2>3, CallsKept DEF RoomsInv
  <2>5. changes' \subseteq subscribers
    BY <1>4 DEF Publish, Signal, FeedInv, FeedTypeOK
  <2>6. rooms[r].revision + 1 \in Nat /\ rooms[r].revision + 1 <= rooms'[r].revision
    BY <1>3, <2>3
  <2> QED
    BY <1>4, <1>a, <2>3, <2>4, <2>5, <2>6
<1>5. ASSUME Answers(s, 0), rooms' = rooms, changes' = changes \/ Signal PROVE FeedInv'
  <2>1. RoomsInv' /\ RoomsGrow
    BY <1>1, <1>5, QuietRooms DEF Command, web
  <2>2. 0 <= rooms'[r].revision /\ changes' \subseteq subscribers
    BY <1>3, <1>5 DEF Signal, FeedInv, FeedTypeOK
  <2> QED
    BY <1>5, <1>a, <2>1, <2>2
<1>6. CASE IsOpen(r) /\ Answers(s, rooms[r].revision + 1)
           /\ \E life \in {"open", "finished", "cancelled"} : Publish(r, [rooms[r] EXCEPT !.life = life])
  <2>1. PICK life \in {"open", "finished", "cancelled"} : Publish(r, [rooms[r] EXCEPT !.life = life])
    BY <1>6
  <2> DEFINE x == [rooms[r] EXCEPT !.life = life]
  <2>2. x \in RoomRecord /\ x.key = rooms[r].key /\ x.revision = rooms[r].revision
    BY <1>3 DEF RoomRecord, Lives
  <2>3. Publish(r, x)
    BY <2>1
  <2> HIDE DEF x
  <2> QED
    BY <1>4, <1>6, <2>2, <2>3
<1>7. CASE Vote(r) /\ Answers(s, rooms[r].revision + 1)
  BY <1>3, <1>4, <1>7 DEF Vote
<1> QED
  BY <1>2, <1>5, <1>6, <1>7 DEF Command

LEMMA FeedKept == FeedInv /\ [Next]_vars => FeedInv'
<1> SUFFICES ASSUME FeedInv, [Next]_vars PROVE FeedInv'
  OBVIOUS
<1>1. CASE RoomsNext /\ UNCHANGED feed
  <2>1. RoomsInv' /\ RoomsGrow
    BY <1>1, RoomsKeep DEF FeedInv
  <2>2. subscribers' = subscribers
    BY <1>1 DEF RoomsNext, OpenElsewhere, PlayElsewhere, VoteElsewhere, Vote, Forget, Store, Announce, OpenRoom, MakeRoom,
                LookAtRoom, EnterRoom, JoinInvite, SignalJoin
  <2>3. changes' = changes \/ Signal
    BY <1>1 DEF RoomsNext, OpenElsewhere, PlayElsewhere, VoteElsewhere, Vote, Forget, Store, Announce, OpenRoom, MakeRoom,
                LookAtRoom, EnterRoom, JoinInvite, SignalJoin, Publish
  <2>4. changes' \subseteq subscribers
    BY <2>3 DEF Signal, FeedInv, FeedTypeOK
  <2> QED
    BY <1>1, <2>1, <2>2, <2>4, RoomsGoOn
<1>2. CASE UNCHANGED vars
  BY <1>2, QuietRooms, RoomsGoOn DEF vars, FeedInv, FeedTypeOK
<1>3. ASSUME NEW s \in Watchers, Close(s) PROVE FeedInv'
  BY <1>3, LeaveKeeps DEF Close
<1> QED
  BY <1>1, <1>2, <1>3, ConnectKeeps, CommandKeeps, ReadPublicKeeps, ReadRestKeeps, WriteKeeps, WakeKeeps
     DEF Next, FeedNext, Loop

-----------------------------------------------------------------------------
(* The theorems *)

\* The invariant of the rooms and of the sockets that watch them.
THEOREM FeedInvariant == Spec => []FeedInv
BY InitFeed, FeedKept, PTL DEF Spec

\* The sockets that are open are those the service signals.
THEOREM FeedTypes == Spec => []FeedTypeOK
<1>1. FeedInv => FeedTypeOK
  BY DEF FeedInv
<1> QED
  BY <1>1, FeedInvariant, PTL

\* A request to open a room opens one, however often it is repeated.
THEOREM RequestsOpenOneRoom == Spec => []RequestFindsItsRoom
<1>1. FeedInv => RequestFindsItsRoom
  BY DEF FeedInv, RoomsInv
<1> QED
  BY <1>1, FeedInvariant, PTL

\* A user is counted for the sockets that are open, at most Limit of them.
THEOREM CountsAreRight == Spec => []SocketsAreCounted
<1>1. FeedInv => SocketsAreCounted
  BY DEF FeedInv
<1> QED
  BY <1>1, FeedInvariant, PTL

\* The view that answers an accepted command was read after it took effect.
THEOREM AnswersShowEffects == Spec => []AnswerShowsEffect
<1>1. FeedInv => AnswerShowsEffect
  BY SocketFields DEF FeedInv, EffectIsKnown, AnswerShowsEffect
<1> QED
  BY <1>1, FeedInvariant, PTL
=============================================================================
