----------------------------- MODULE MCLiveFeed -----------------------------
(* Small instances of LiveFeed for TLC: one user, one room that changes.   *)
EXTENDS LiveFeed

CONSTANTS user, busy, Changes

OneUser == [s \in Watchers |-> user]
OneBusyRoom == [r \in Rooms |-> IF r = busy THEN Changes ELSE 0]
=============================================================================
