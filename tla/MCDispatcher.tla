---------------------------- MODULE MCDispatcher ----------------------------
(* Small instances of Dispatcher for TLC: two chats that share a queue. *)
EXTENDS Dispatcher

CONSTANTS chat, other, m1, m2, m3, q, r, k, shared

OfChats == [j \in Jobs |-> IF j = m3 THEN other ELSE chat]
OneQueue == [c \in Chats |-> shared]
OneWorker == [l \in {Inline, Recovery} |-> 1]
=============================================================================
