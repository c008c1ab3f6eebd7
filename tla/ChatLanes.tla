----------------------------- MODULE ChatLanes ------------------------------
(***************************************************************************)
(* What the dispatcher promises each chat: a bounded lane of its own whose *)
(* jobs run one at a time and in the order they were accepted.  Renewing   *)
(* a lane drops what waits in it and disowns what runs; shutting down does *)
(* that to every lane.                                                     *)
(***************************************************************************)
EXTENDS Naturals, Sequences

CONSTANTS Chats, Jobs, None, Capacity

VARIABLES
  lane,  \* jobs each chat has waiting
  work,  \* job each chat is having done
  open   \* accepting jobs

Init ==
  /\ lane = [c \in Chats |-> <<>>]
  /\ work = [c \in Chats |-> None]
  /\ open = TRUE

Accept(c, j) ==
  /\ open
  /\ Len(lane[c]) < Capacity
  /\ lane' = [lane EXCEPT ![c] = Append(@, j)]
  /\ UNCHANGED <<work, open>>

Start(c) ==
  /\ work[c] = None
  /\ lane[c] # <<>>
  /\ work' = [work EXCEPT ![c] = Head(lane[c])]
  /\ lane' = [lane EXCEPT ![c] = Tail(@)]
  /\ UNCHANGED open

Finish(c) ==
  /\ work[c] # None
  /\ work' = [work EXCEPT ![c] = None]
  /\ UNCHANGED <<lane, open>>

Renew(c) ==
  /\ lane' = [lane EXCEPT ![c] = <<>>]
  /\ work' = [work EXCEPT ![c] = None]
  /\ UNCHANGED open

Shut ==
  /\ lane' = [c \in Chats |-> <<>>]
  /\ work' = [c \in Chats |-> None]
  /\ open' = FALSE

Next ==
  \/ \E c \in Chats :
       Start(c) \/ Finish(c) \/ Renew(c) \/ \E j \in Jobs : Accept(c, j)
  \/ Shut

Spec == Init /\ [][Next]_<<lane, work, open>>
=============================================================================
