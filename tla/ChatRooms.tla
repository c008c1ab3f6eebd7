----------------------------- MODULE ChatRooms ------------------------------
(***************************************************************************)
(* What internal/game promises about rooms, whatever its goroutines, locks *)
(* and indices do: a chat has at most one open game, a game opens once and *)
(* ends once, and a closed game is followed by at most one rematch, opened *)
(* in the same place after its own result has been stored.                 *)
(***************************************************************************)
EXTENDS FiniteSets

CONSTANTS Games, Chats, None

VARIABLES
  life,    \* "unborn", "open", "closed" or "reset"
  place,   \* the chat of a game; None for a free room
  owed,    \* finished games whose result is not stored yet
  heir     \* the rematch of a closed game

rooms == <<life, place, owed, heir>>

Vacant(c) == c = None \/ ~\E g \in Games : life[g] = "open" /\ place[g] = c

RoomsInit ==
  /\ life = [g \in Games |-> "unborn"]
  /\ place = [g \in Games |-> None]
  /\ owed = {}
  /\ heir = [g \in Games |-> None]

Open(g, c) ==
  /\ life[g] = "unborn"
  /\ Vacant(c)
  /\ life' = [life EXCEPT ![g] = "open"]
  /\ place' = [place EXCEPT ![g] = c]
  /\ UNCHANGED <<owed, heir>>

\* A game ends with a result to store, or is cancelled without one.
Close(g) ==
  /\ life[g] = "open"
  /\ life' = [life EXCEPT ![g] = "closed"]
  /\ owed' \in {owed, owed \cup {g}}
  /\ UNCHANGED <<place, heir>>

Store(g) ==
  /\ g \in owed
  /\ owed' = owed \ {g}
  /\ UNCHANGED <<life, place, heir>>

\* A reset ends the open game of one chat and leaves no result of it.
ResetRoom(g) ==
  /\ life[g] = "open" /\ place[g] # None
  /\ life' = [life EXCEPT ![g] = "reset"]
  /\ UNCHANGED <<place, owed, heir>>

Rematch(g, n) ==
  /\ life[g] = "closed" /\ life[n] = "unborn"
  /\ g \notin owed
  /\ heir[g] = None
  /\ Vacant(place[g])
  /\ life' = [life EXCEPT ![n] = "open"]
  /\ place' = [place EXCEPT ![n] = place[g]]
  /\ heir' = [heir EXCEPT ![g] = n]
  /\ UNCHANGED owed

RoomsNext ==
  \E g \in Games :
    \/ Close(g) \/ Store(g) \/ ResetRoom(g)
    \/ \E c \in Chats \cup {None} : Open(g, c)
    \/ \E n \in Games : Rematch(g, n)

RoomsSpec == RoomsInit /\ [][RoomsNext]_rooms
=============================================================================
