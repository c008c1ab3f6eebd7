------------------------------ MODULE LiveFeed ------------------------------
(***************************************************************************)
(* internal/httpapi/live.go: the websocket through which a web client      *)
(* watches one room and acts in it.  A socket is a goroutine that waits    *)
(* for a signal of the service, a command of its client or its heartbeat,  *)
(* and answers each with a fresh view of the room.  A view is put together *)
(* from three reads at three moments: the public view, the hand, and the   *)
(* result once the room has closed.                                        *)
(*                                                                         *)
(* Sockets are the watchers of WebRooms.  A client may connect again.      *)
(***************************************************************************)
EXTENDS WebRooms

CONSTANTS
  OwnerOf,      \* user of each socket
  Limit,        \* sockets of a user, 3 in the code
  MaxFaults     \* bound on the failures of the database

ASSUME LiveFeedAssumption ==
  OwnerOf \in [Watchers -> Users] /\ Limit \in Nat /\ MaxFaults \in Nat

VARIABLES
  socket,       \* stage of each socket, the room it watches, the view in the making
  board,        \* the view its client has
  unconfirmed,  \* terminalUnconfirmed
  wsUsers,      \* sockets counted for each user
  faults

feed == <<socket, board, unconfirmed, wsUsers, faults>>
vars == <<web, subscribers, changes, feed>>

Stages == {"off", "public", "hand", "write", "idle"}
Views == [revision : Nat, life : {"open", "finished", "cancelled"}, result : BOOLEAN]
ViewOf(r) == [revision |-> rooms[r].revision, life |-> rooms[r].life, result |-> FALSE]
Blank == [revision |-> 0, life |-> "open", result |-> FALSE]
Off == [stage |-> "off", room |-> None, view |-> Blank, effect |-> 0]
SocketRecord ==
  [ stage : Stages, room : Rooms \cup {None}, view : Views,
    effect : Nat ]  \* revision of the command being answered

Init ==
  /\ InitRooms
  /\ socket = [s \in Watchers |-> Off]
  /\ board = [s \in Watchers |-> Blank]
  /\ unconfirmed = {}
  /\ wsUsers = [u \in Users |-> 0]
  /\ faults = 0

At(s, stage) == socket[s].stage = stage
Watches(s) == ~At(s, "off")
Goes(s, stage) == socket' = [socket EXCEPT ![s].stage = stage]

-----------------------------------------------------------------------------
(* Coming and going *)

\* Mutant of MayCount: one socket more.
MayCountOneMore(u) == wsUsers[u] <= Limit

MayCount(u) == wsUsers[u] < Limit

\* The credentials are valid, the user is in the room and has few sockets.
\* The socket subscribes before its first view is read.
Connect(s) ==
  LET u == OwnerOf[s]
  IN  /\ At(s, "off")
      /\ MayCount(u)
      /\ \E r \in Rooms :
           /\ Exists(r)
           /\ u \in rooms[r].registered
           /\ socket' = [socket EXCEPT ![s] = [Off EXCEPT !.stage = "public", !.room = r]]
      /\ wsUsers' = [wsUsers EXCEPT ![u] = @ + 1]
      /\ subscribers' = subscribers \cup {s}
      /\ UNCHANGED <<web, changes, board, unconfirmed, faults>>

\* Mutant of Leave: the subscription is not given back.
LeaveSubscribed(s) ==
  /\ socket' = [socket EXCEPT ![s] = Off]
  /\ board' = [board EXCEPT ![s] = Blank]
  /\ UNCHANGED subscribers
  /\ unconfirmed' = unconfirmed \ {s}
  /\ wsUsers' = [wsUsers EXCEPT ![OwnerOf[s]] = @ - 1]

\* Everything the socket holds is given back, wherever it stands.
Leave(s) ==
  /\ socket' = [socket EXCEPT ![s] = Off]
  /\ board' = [board EXCEPT ![s] = Blank]
  /\ subscribers' = subscribers \ {s}
  /\ unconfirmed' = unconfirmed \ {s}
  /\ wsUsers' = [wsUsers EXCEPT ![OwnerOf[s]] = @ - 1]

\* The client disconnects, a write or a ping fails, the credentials expire.
Close(s) ==
  /\ Watches(s)
  /\ Leave(s)
  /\ changes' = changes \ {s}
  /\ UNCHANGED <<web, faults>>

-----------------------------------------------------------------------------
(* project *)

\* The public view.  The socket closes when the room is gone.
ReadPublic(s) ==
  LET r == socket[s].room
  IN  /\ At(s, "public")
      /\ \/ /\ Exists(r)
            /\ socket' = [socket EXCEPT ![s].stage = "hand", ![s].view = ViewOf(r)]
            /\ UNCHANGED <<subscribers, changes, board, unconfirmed, wsUsers>>
         \/ /\ ~Exists(r)
            /\ Leave(s)
            /\ changes' = changes \ {s}
      /\ UNCHANGED <<web, faults>>

\* The hand, or the result when the room had closed.  A room that closes in
\* between closes the socket; a read of the result may fail or come early.
ReadRest(s) ==
  LET r == socket[s].room
      closed == socket[s].view.life # "open"
      Shows(result) == socket' = [socket EXCEPT ![s].stage = "write", ![s].view.result = result]
      stays == UNCHANGED <<subscribers, changes, board, unconfirmed, wsUsers>>
  IN  /\ At(s, "hand")
      /\ \/ /\ closed
            /\ Shows(rooms[r].stored)
            /\ UNCHANGED faults /\ stays
         \/ /\ closed /\ faults < MaxFaults
            /\ Shows(FALSE)
            /\ faults' = faults + 1 /\ stays
         \/ /\ ~closed /\ IsOpen(r)
            /\ Shows(FALSE)
            /\ UNCHANGED faults /\ stays
         \/ /\ ~closed /\ ~IsOpen(r)
            /\ Leave(s)
            /\ changes' = changes \ {s}
            /\ UNCHANGED faults
      /\ UNCHANGED web

\* Mutant of AwaitsResult: a closed room is shown once.
NeverAwaits(s) == FALSE

\* A cancelled room has no result to wait for.
AwaitsResult(s) ==
  socket[s].view.life = "finished" /\ ~socket[s].view.result

\* Mutant of Write: the signal is taken when the view has been written.
WriteAndForget(s) ==
  /\ At(s, "write")
  /\ board' = [board EXCEPT ![s] = socket[s].view]
  /\ unconfirmed' = IF AwaitsResult(s) THEN unconfirmed \cup {s} ELSE unconfirmed \ {s}
  /\ changes' = changes \ {s}
  /\ socket' = [socket EXCEPT ![s].stage = "idle", ![s].effect = 0, ![s].view = Blank]
  /\ UNCHANGED <<web, subscribers, wsUsers, faults>>

Write(s) ==
  /\ At(s, "write")
  /\ board' = [board EXCEPT ![s] = socket[s].view]
  /\ unconfirmed' = IF AwaitsResult(s) THEN unconfirmed \cup {s} ELSE unconfirmed \ {s}
  /\ socket' = [socket EXCEPT ![s].stage = "idle", ![s].effect = 0, ![s].view = Blank]
  /\ UNCHANGED <<web, subscribers, changes, wsUsers, faults>>

-----------------------------------------------------------------------------
(* The loop *)

Wake(s) ==
  /\ At(s, "idle")
  /\ s \in changes
  /\ changes' = changes \ {s}
  /\ Goes(s, "public")
  /\ UNCHANGED <<web, subscribers, board, unconfirmed, wsUsers, faults>>

Beat(s) ==
  /\ At(s, "idle")
  /\ s \in unconfirmed
  /\ Goes(s, "public")
  /\ UNCHANGED <<web, subscribers, changes, board, unconfirmed, wsUsers, faults>>

\* Mutant of Answers: the view was read before the command was carried out.
AnswersFromBefore(s, n) ==
  socket' = [socket EXCEPT ![s].stage = "hand", ![s].effect = n, ![s].view = ViewOf(socket[s].room)]

Answers(s, n) == socket' = [socket EXCEPT ![s].stage = "public", ![s].effect = n]

\* An accepted move changes the room, and may end it.  Once it has ended and
\* its result is stored, commands are votes for a rematch, signalled even when
\* they change no vote.  A command that is too late, too frequent or against
\* the rules is answered with a view as well.
Command(s) ==
  LET r == socket[s].room
  IN  /\ At(s, "idle")
      /\ \/ /\ IsOpen(r)
            /\ \E life \in {"open", "finished", "cancelled"} :
                 Publish(r, [rooms[r] EXCEPT !.life = life])
            /\ Answers(s, rooms[r].revision + 1)
         \/ /\ Vote(r)
            /\ Answers(s, rooms[r].revision + 1)
         \/ /\ MayVote(r)
            /\ Signal
            /\ Answers(s, 0)
            /\ UNCHANGED rooms
         \/ /\ Answers(s, 0)
            /\ UNCHANGED <<rooms, changes>>
      /\ UNCHANGED <<receipts, call, subscribers, board, unconfirmed, wsUsers, faults>>

Loop(s) == ReadPublic(s) \/ ReadRest(s) \/ Write(s) \/ Wake(s) \/ Beat(s)

FeedNext ==
  \E s \in Watchers : Connect(s) \/ Close(s) \/ Command(s) \/ Loop(s)

Next ==
  \/ RoomsNext /\ UNCHANGED feed
  \/ FeedNext

\* Reads and writes end by their timeouts, and the loop goes on.  Nothing is
\* assumed of clients or of what happens in the rooms; reads of a result stop
\* failing at some time, by MaxFaults.
Fairness == \A s \in Watchers : WF_vars(Loop(s))

Spec == Init /\ [][Next]_vars
LiveSpec == Spec /\ Fairness

-----------------------------------------------------------------------------
(* Properties *)

\* The service signals the sockets that are open and no others.
FeedTypeOK ==
  /\ RoomsTypeOK
  /\ subscribers = {s \in Watchers : Watches(s)} /\ changes \subseteq subscribers
  /\ socket \in [Watchers -> SocketRecord]
  /\ board \in [Watchers -> Views]
  /\ unconfirmed \subseteq Watchers
  /\ wsUsers \in [Users -> Nat]
  /\ faults \in 0 .. MaxFaults

\* A user is counted for the sockets that are open, no more than the limit
\* and no fewer than there are, however sockets end: who reconnects for ever
\* is not locked out, and nobody holds more than the limit.
SocketsOf(u) == {s \in Watchers : OwnerOf[s] = u /\ Watches(s)}

SocketsAreCounted ==
  \A u \in Users : wsUsers[u] = Cardinality(SocketsOf(u)) /\ wsUsers[u] <= Limit

\* The answer to an accepted command shows its effect: the view was read
\* after the command was carried out.
AnswerShowsEffect ==
  \A s \in Watchers : At(s, "write") => socket[s].view.revision >= socket[s].effect

\* A change that was published reaches every board, though signals are
\* coalesced and one may arrive while a view is being read: unless the socket
\* closes, or the room is gone, its client comes to see that change.
Sees(s, r, n) == board[s].revision >= n \/ ~Watches(s) \/ ~Exists(r)

BoardsCatchUp ==
  \A s \in Watchers, r \in Rooms : \A n \in 1 .. MaxRevision[r] :
    (Watches(s) /\ socket[s].room = r /\ Exists(r) /\ rooms[r].revision = n) ~> Sees(s, r, n)

\* The result of a room that ended is shown in the end, though the room is
\* shown closed before its result is stored and reading it may fail.
ResultIsShown ==
  \A s \in Watchers, r \in Rooms :
    (Watches(s) /\ socket[s].room = r /\ Exists(r) /\ rooms[r].stored)
      ~> (board[s].result \/ ~Watches(s) \/ ~Exists(r))
=============================================================================
