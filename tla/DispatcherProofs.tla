-------------------------- MODULE DispatcherProofs --------------------------
(***************************************************************************)
(* What the Dispatcher promises for every number of chats, handlers,       *)
(* queues, workers and resets, for every capacity and whatever updates     *)
(* come: tasks stay in their queues, an update is handled once, a chat is  *)
(* served by one live task at a time, and each chat gets the bounded,      *)
(* ordered lane of its own that ChatLanes describes.                       *)
(***************************************************************************)
EXTENDS Dispatcher, SiftingProofs, FiniteSetTheorems, TLAPS

USE DispatcherAssumption

-----------------------------------------------------------------------------
(* The inductive invariant *)

\* The contexts cancelled by resets are those of the earlier generations.
OldAreCancelled ==
  \A c \in Chats, g \in 0 .. MaxResets : <<c, g>> \in cancelled <=> g < epoch[c]

\* A queue of chats has one worker.
OneWorkerEach ==
  \A l \in Lanes :
    /\ IsFiniteSet(running[l])
    /\ l \notin {Inline, Recovery} => \A t, v \in running[l] : t = v

\* A job that was accepted will not be admitted again.
Spent(j, expiring, known) == j \notin expiring /\ (j \in Updates => j \in known)

\* A job is with one sender, in one place of one queue, or started; an update
\* is reserved while it is with a sender and committed from then on.
HeldOnce ==
  \A s \in Senders : sender[s] # NoTask =>
    /\ sender[s].job \notin ticks
    /\ sender[s].job \in Updates => sender[s].job \in pending \ seen
    /\ starts[sender[s].job] = 0
    /\ \A r \in Senders : sender[r].job = sender[s].job => r = s

QueuedOnce ==
  \A l \in Lanes : \A i \in 1 .. Len(queue[l]) :
    /\ Spent(queue[l][i].job, ticks, seen)
    /\ starts[queue[l][i].job] = 0
    /\ \A s \in Senders : sender[s].job # queue[l][i].job
    /\ \A m \in Lanes : \A k \in 1 .. Len(queue[m]) :
         queue[m][k].job = queue[l][i].job => m = l /\ k = i

StartedOnce == \A j \in Jobs : starts[j] # 0 => starts[j] = 1 /\ Spent(j, ticks, seen)

InOnePlace == HeldOnce /\ QueuedOnce /\ StartedOnce

DispatchInv == DispatchTypeOK /\ OldAreCancelled /\ OneWorkerEach /\ InOnePlace

-----------------------------------------------------------------------------
(* Tasks and queues *)

LEMMA NoTaskIsNoTask == NoTask \notin Tasks /\ NoTask.job \notin Jobs
BY DEF NoTask, Tasks

LEMMA LaneOfTask ==
  ASSUME NEW t \in Tasks
  PROVE  /\ LaneOf(t) \in Lanes
         /\ Chat(t) \in Chats
         /\ t.job \in Messages \cup Ticks =>
              /\ LaneOf(t) = IF t.gen = 0 THEN QueueOf[Chat(t)] ELSE <<Chat(t), t.gen>>
              /\ LaneOf(t) \notin {Inline, Recovery}
<1>1. t.job \in Jobs /\ t.gen \in 0 .. MaxResets
  BY DEF Tasks
<1>2. Chat(t) \in Chats
  BY <1>1 DEF Chat
<1>3. QueueOf[Chat(t)] \in Partitions
  BY <1>2
<1>4. t.gen # 0 => <<Chat(t), t.gen>> \in OwnLanes
  BY <1>1, <1>2 DEF OwnLanes
<1>5. t.job \in Messages \cup Ticks => t.job \notin Queries \cup Resets
  BY DEF Updates
<1> QED
  BY <1>2, <1>3, <1>4, <1>5, Zenon DEF LaneOf, Lanes

LEMMA InitInv == Init => DispatchInv
<1> SUFFICES ASSUME Init PROVE DispatchInv
  OBVIOUS
<1> USE DEF Init
<1>1. DispatchTypeOK
  <2>1. \A l \in Lanes : queue[l] = <<>> /\ queue[l] \in Seq(Tasks) /\ Len(queue[l]) = 0 /\ running[l] = {}
    BY EmptySeq
  <2>2. queue \in [Lanes -> Seq(Tasks)] /\ running \in [Lanes -> SUBSET Tasks]
    BY <2>1
  <2>3. \A l \in Lanes : Len(queue[l]) <= Capacity /\ 1 .. Len(queue[l]) = {}
    BY <2>1
  <2>4. sender \in [Senders -> Tasks \cup {NoTask}] /\ \A s \in Senders : sender[s] = NoTask
    OBVIOUS
  <2> QED
    BY <2>1, <2>2, <2>3, <2>4 DEF DispatchTypeOK
<1>2. OldAreCancelled
  BY DEF OldAreCancelled
<1>3. OneWorkerEach
  BY FS_EmptySet DEF OneWorkerEach
<1>4. InOnePlace
  <2>1. \A l \in Lanes : 1 .. Len(queue[l]) = {}
    BY EmptySeq
  <2> QED
    BY <2>1 DEF InOnePlace, HeldOnce, QueuedOnce, StartedOnce
<1> QED
  BY <1>1, <1>2, <1>3, <1>4 DEF DispatchInv

-----------------------------------------------------------------------------
(* Types *)

\* The part of the type invariant about what is queued and what is running.
LanesTypeOK ==
  /\ queue \in [Lanes -> Seq(Tasks)]
  /\ running \in [Lanes -> SUBSET Tasks]
  /\ \A l \in Lanes :
       /\ Len(queue[l]) <= Capacity
       /\ \A t \in running[l] : LaneOf(t) = l /\ t.gen <= epoch[Chat(t)]
       /\ \A i \in 1 .. Len(queue[l]) :
            LaneOf(queue[l][i]) = l /\ queue[l][i].gen <= epoch[Chat(queue[l][i])]

SendersTypeOK ==
  /\ sender \in [Senders -> Tasks \cup {NoTask}]
  /\ \A s \in Senders : sender[s] # NoTask => sender[s].gen <= epoch[Chat(sender[s])]

RestTypeOK ==
  /\ transport \in {"webhook", "polling"}
  /\ backlog \subseteq Updates /\ pending \subseteq Updates /\ seen \subseteq Updates
  /\ ticks \subseteq Ticks
  /\ epoch \in [Chats -> 0 .. MaxResets]
  /\ cancelled \subseteq Chats \X (0 .. MaxResets)
  /\ gone \subseteq OwnLanes
  /\ renewed \subseteq Resets
  /\ life \in {"up", "stopping", "crashed"}
  /\ closed \subseteq Lanes \ OwnLanes
  /\ starts \in [Jobs -> Nat]

LEMMA TypeParts == DispatchTypeOK <=> LanesTypeOK /\ SendersTypeOK /\ RestTypeOK
BY DEF DispatchTypeOK, LanesTypeOK, SendersTypeOK, RestTypeOK

\* Whoever admits a job takes the generation of its chat.
LEMMA AdmitTypes ==
  ASSUME DispatchTypeOK, NEW s \in Senders, NEW j \in Jobs, Admit(s, j), UNCHANGED epoch
  PROVE  /\ SendersTypeOK'
         /\ sender'[s] \in Tasks /\ sender'[s].job = j
         /\ \A r \in Senders \ {s} : sender'[r] = sender[r]
<1>1. [job |-> j, gen |-> epoch[ChatOf[j]]] \in Tasks
  BY DEF DispatchTypeOK, Tasks
<1>2. sender' = [sender EXCEPT ![s] = [job |-> j, gen |-> epoch[ChatOf[j]]]]
  BY DEF Admit
<1>3. sender'[s] = [job |-> j, gen |-> epoch[ChatOf[j]]] /\ \A r \in Senders \ {s} : sender'[r] = sender[r]
  BY <1>2 DEF DispatchTypeOK
<1>4. sender'[s].gen <= epoch[Chat(sender'[s])]
  BY <1>1, <1>3 DEF Chat, DispatchTypeOK
<1>5. sender' \in [Senders -> Tasks \cup {NoTask}]
  BY <1>1, <1>2 DEF DispatchTypeOK
<1>6. \A r \in Senders : sender'[r] # NoTask => sender'[r].gen <= epoch[Chat(sender'[r])]
  BY <1>3, <1>4 DEF DispatchTypeOK
<1>7. SendersTypeOK'
  BY <1>5, <1>6 DEF SendersTypeOK
<1> QED
  BY <1>1, <1>3, <1>7

LEMMA DoneTypes ==
  ASSUME DispatchTypeOK, NEW s \in Senders, Done(s), UNCHANGED epoch
  PROVE  /\ SendersTypeOK'
         /\ sender'[s] = NoTask
         /\ \A r \in Senders \ {s} : sender'[r] = sender[r]
BY DEF SendersTypeOK, DispatchTypeOK, Chat, Done

\* A task is appended to its own queue, which has room.
LEMMA AppendedLanes ==
  ASSUME LanesTypeOK, NEW t \in Tasks, t.gen <= epoch[Chat(t)],
         Len(queue[LaneOf(t)]) < Capacity,
         queue' = [queue EXCEPT ![LaneOf(t)] = Append(@, t)],
         UNCHANGED <<running, epoch>>
  PROVE  /\ LanesTypeOK'
         /\ Len(queue'[LaneOf(t)]) = Len(queue[LaneOf(t)]) + 1
         /\ queue'[LaneOf(t)][Len(queue[LaneOf(t)]) + 1] = t
         /\ \A i \in 1 .. Len(queue[LaneOf(t)]) : queue'[LaneOf(t)][i] = queue[LaneOf(t)][i]
         /\ \A l \in Lanes \ {LaneOf(t)} : queue'[l] = queue[l]
<1> DEFINE m == LaneOf(t)
<1>1. m \in Lanes
  BY LaneOfTask
<1>2. queue[m] \in Seq(Tasks) /\ Len(queue[m]) \in Nat
  BY <1>1, LenProperties DEF LanesTypeOK
<1>3. queue'[m] = Append(queue[m], t) /\ \A l \in Lanes \ {m} : queue'[l] = queue[l]
  BY <1>1 DEF LanesTypeOK
<1>4. /\ Append(queue[m], t) \in Seq(Tasks)
      /\ Len(Append(queue[m], t)) = Len(queue[m]) + 1
      /\ \A i \in 1 .. Len(queue[m]) : Append(queue[m], t)[i] = queue[m][i]
      /\ Append(queue[m], t)[Len(queue[m]) + 1] = t
  BY <1>2, AppendProperties
<1>5. queue' \in [Lanes -> Seq(Tasks)]
  BY <1>1, <1>4 DEF LanesTypeOK
<1>6. ASSUME NEW i \in 1 .. Len(queue'[m])
      PROVE  LaneOf(queue'[m][i]) = m /\ queue'[m][i].gen <= epoch[Chat(queue'[m][i])]
  <2>1. CASE i = Len(queue[m]) + 1
    BY <1>3, <1>4, <2>1
  <2>2. CASE i \in 1 .. Len(queue[m])
    <3>1. queue'[m][i] = queue[m][i]
      BY <1>3, <1>4, <2>2
    <3> QED
      BY <1>1, <2>2, <3>1 DEF LanesTypeOK
  <2> QED
    BY <1>2, <1>3, <1>4, <2>1, <2>2
<1>7. Len(queue'[m]) <= Capacity
  BY <1>2, <1>3, <1>4
<1> HIDE DEF m
<1>8. LanesTypeOK'
  <2>1. ASSUME NEW l \in Lanes
        PROVE  /\ Len(queue'[l]) <= Capacity
               /\ \A i \in 1 .. Len(queue'[l]) :
                    LaneOf(queue'[l][i]) = l /\ queue'[l][i].gen <= epoch[Chat(queue'[l][i])]
    <3>1. CASE l = m
      BY <1>6, <1>7, <3>1
    <3>2. CASE l # m
      BY <1>3, <3>2 DEF LanesTypeOK
    <3> QED
      BY <3>1, <3>2
  <2> QED
    BY <1>5, <2>1 DEF LanesTypeOK
<1> QED
  BY <1>3, <1>4, <1>8 DEF m

\* The head of a queue is taken; who runs is what ran, and the head perhaps.
LEMMA TakenLanes ==
  ASSUME LanesTypeOK, NEW l \in Lanes, queue[l] # <<>>,
         queue' = [queue EXCEPT ![l] = Tail(@)],
         \/ running' = [running EXCEPT ![l] = @ \cup {Head(queue[l])}]
         \/ running' = running,
         UNCHANGED epoch
  PROVE  /\ LanesTypeOK'
         /\ Len(queue[l]) \in Nat \ {0} /\ Head(queue[l]) = queue[l][1] /\ Head(queue[l]) \in Tasks
         /\ Len(queue'[l]) = Len(queue[l]) - 1
         /\ \A i \in 1 .. Len(queue'[l]) : queue'[l][i] = queue[l][i + 1]
         /\ \A m \in Lanes \ {l} : queue'[m] = queue[m]
<1>1. queue[l] \in Seq(Tasks) /\ Len(queue[l]) \in Nat \ {0}
  BY EmptySeq DEF LanesTypeOK
<1>2. /\ Head(queue[l]) \in Tasks /\ Head(queue[l]) = queue[l][1]
      /\ Tail(queue[l]) \in Seq(Tasks) /\ Len(Tail(queue[l])) = Len(queue[l]) - 1
      /\ \A i \in 1 .. Len(Tail(queue[l])) : Tail(queue[l])[i] = queue[l][i + 1]
  BY <1>1, HeadTailProperties
<1>3. queue'[l] = Tail(queue[l]) /\ \A m \in Lanes \ {l} : queue'[m] = queue[m]
  BY DEF LanesTypeOK
<1>4. queue' \in [Lanes -> Seq(Tasks)]
  BY <1>2 DEF LanesTypeOK
<1>5. LaneOf(queue[l][1]) = l /\ queue[l][1].gen <= epoch[Chat(queue[l][1])]
  BY <1>1 DEF LanesTypeOK
<1> DEFINE h == Head(queue[l])
<1>6. running' = running \/ running' = [running EXCEPT ![l] = @ \cup {h}]
  OBVIOUS
<1>a. h \in Tasks /\ LaneOf(h) = l /\ h.gen <= epoch[Chat(h)]
  BY <1>2, <1>5
<1> HIDE DEF h
<1>7. /\ running' \in [Lanes -> SUBSET Tasks]
      /\ \A m \in Lanes : \A t \in running'[m] : LaneOf(t) = m /\ t.gen <= epoch[Chat(t)]
  <2>1. CASE running' = running
    BY <2>1 DEF LanesTypeOK
  <2>2. CASE running' = [running EXCEPT ![l] = @ \cup {h}]
    <3>1. running'[l] = running[l] \cup {h} /\ \A m \in Lanes \ {l} : running'[m] = running[m]
      BY <2>2 DEF LanesTypeOK
    <3>2. running' \in [Lanes -> SUBSET Tasks]
      BY <1>a, <2>2 DEF LanesTypeOK
    <3> QED
      BY <1>a, <3>1, <3>2 DEF LanesTypeOK
  <2> QED
    BY <1>6, <2>1, <2>2
<1>b. ASSUME NEW i \in 1 .. Len(queue'[l])
      PROVE  LaneOf(queue'[l][i]) = l /\ queue'[l][i].gen <= epoch[Chat(queue'[l][i])]
  <2>0. queue'[l] = Tail(queue[l]) /\ Len(queue'[l]) = Len(queue[l]) - 1
    BY <1>2, <1>3
  <2>1. i + 1 \in 1 .. Len(queue[l]) /\ queue'[l][i] = queue[l][i + 1]
    <3>1. i \in 1 .. Len(queue[l]) - 1
      BY <2>0
    <3>2. i + 1 \in 1 .. Len(queue[l])
      BY <1>1, <3>1
    <3>3. Tail(queue[l])[i] = queue[l][i + 1]
      BY <1>2, <2>0
    <3> QED
      BY <2>0, <3>2, <3>3
  <2>2. \A k \in 1 .. Len(queue[l]) : LaneOf(queue[l][k]) = l /\ queue[l][k].gen <= epoch[Chat(queue[l][k])]
    BY DEF LanesTypeOK
  <2>3. LaneOf(queue[l][i + 1]) = l /\ queue[l][i + 1].gen <= epoch[Chat(queue[l][i + 1])]
    BY <2>1, <2>2
  <2> QED
    BY <2>1, <2>3
<1>c. Len(queue'[l]) <= Capacity
  <2>1. Len(queue[l]) <= Capacity
    BY DEF LanesTypeOK
  <2> QED
    BY <1>1, <1>2, <1>3, <2>1
<1>8. ASSUME NEW m \in Lanes
      PROVE  /\ Len(queue'[m]) <= Capacity
             /\ \A i \in 1 .. Len(queue'[m]) :
                  LaneOf(queue'[m][i]) = m /\ queue'[m][i].gen <= epoch[Chat(queue'[m][i])]
  <2>1. CASE m = l
    BY <1>b, <1>c, <2>1
  <2>2. CASE m # l
    BY <1>3, <2>2 DEF LanesTypeOK
  <2> QED
    BY <2>1, <2>2
<1>9. LanesTypeOK'
  BY <1>4, <1>6, <1>7, <1>8 DEF LanesTypeOK
<1> QED
  BY <1>1, <1>2, <1>3, <1>9

\* Generations only advance.
LEMMA RenewedTypes ==
  ASSUME DispatchTypeOK, NEW c \in Chats, epoch[c] < MaxResets,
         epoch' = [epoch EXCEPT ![c] = @ + 1], UNCHANGED <<sender, queue, running>>
  PROVE  /\ epoch' \in [Chats -> 0 .. MaxResets]
         /\ epoch'[c] = epoch[c] + 1 /\ \A d \in Chats \ {c} : epoch'[d] = epoch[d]
         /\ LanesTypeOK' /\ SendersTypeOK'
<1>1. /\ epoch' \in [Chats -> 0 .. MaxResets]
      /\ epoch'[c] = epoch[c] + 1 /\ \A d \in Chats \ {c} : epoch'[d] = epoch[d]
  BY DEF DispatchTypeOK
<1>2. \A t \in Tasks : t.gen <= epoch[Chat(t)] => t.gen <= epoch'[Chat(t)]
  <2>1. ASSUME NEW t \in Tasks PROVE Chat(t) \in Chats /\ t.gen \in 0 .. MaxResets
    BY LaneOfTask DEF Tasks
  <2> QED
    BY <1>1, <2>1 DEF DispatchTypeOK
<1>3. LanesTypeOK'
  <2>1. ASSUME NEW l \in Lanes
        PROVE  /\ Len(queue[l]) <= Capacity
               /\ \A t \in running[l] : LaneOf(t) = l /\ t.gen <= epoch'[Chat(t)]
               /\ \A i \in 1 .. Len(queue[l]) :
                    LaneOf(queue[l][i]) = l /\ queue[l][i].gen <= epoch'[Chat(queue[l][i])]
    <3>1. queue[l] \in Seq(Tasks) /\ running[l] \subseteq Tasks
      BY DEF DispatchTypeOK
    <3>2. \A i \in 1 .. Len(queue[l]) : queue[l][i] \in Tasks
      BY <3>1, ElementOfSeq
    <3> QED
      BY <1>2, <3>1, <3>2 DEF DispatchTypeOK
  <2> QED
    BY <2>1 DEF LanesTypeOK, DispatchTypeOK
<1>4. SendersTypeOK'
  BY <1>2 DEF SendersTypeOK, DispatchTypeOK
<1> QED
  BY <1>1, <1>3, <1>4

LEMMA TypesKept == DispatchTypeOK /\ [Next]_vars => DispatchTypeOK'
<1> SUFFICES ASSUME DispatchTypeOK, [Next]_vars PROVE DispatchTypeOK'
  OBVIOUS
<1>0. LanesTypeOK /\ SendersTypeOK /\ RestTypeOK
  BY TypeParts
<1>c. LanesTypeOK' /\ SendersTypeOK' /\ RestTypeOK' => DispatchTypeOK'
  BY DEF DispatchTypeOK, LanesTypeOK, SendersTypeOK, RestTypeOK
<1>a. UNCHANGED <<queue, running, epoch>> => LanesTypeOK'
  BY <1>0 DEF LanesTypeOK
<1>b. UNCHANGED <<sender, epoch>> => SendersTypeOK'
  BY <1>0 DEF SendersTypeOK
<1>1. ASSUME NEW h \in Handlers, NEW u \in Updates, Deliver(h, u) PROVE DispatchTypeOK'
  <2>1. h \in Senders /\ u \in Jobs
    BY DEF Senders, Jobs
  <2>2. SendersTypeOK'
    BY <1>1, <2>1, AdmitTypes DEF Deliver, chats
  <2>3. LanesTypeOK' /\ RestTypeOK'
    BY <1>0, <1>1, <1>a DEF Deliver, RestTypeOK, chats, workers
  <2> QED
    BY <2>2, <2>3, <1>c
<1>2. ASSUME NEW h \in Handlers, NEW u \in Updates, DeliverAgain(h, u) PROVE DispatchTypeOK'
  <2>1. LanesTypeOK' /\ SendersTypeOK' /\ RestTypeOK'
    BY <1>0, <1>2, <1>a, <1>b DEF DeliverAgain, RestTypeOK, chats, workers
  <2> QED
    BY <2>1, <1>c
<1>3. ASSUME NEW u \in Updates, Poll(u) PROVE DispatchTypeOK'
  <2>1. Poller \in Senders /\ u \in Jobs
    BY DEF Senders, Jobs
  <2>2. SendersTypeOK'
    BY <1>3, <2>1, AdmitTypes DEF Poll, chats
  <2>3. LanesTypeOK' /\ RestTypeOK'
    BY <1>0, <1>3, <1>a DEF Poll, RestTypeOK, chats, workers
  <2> QED
    BY <2>2, <2>3, <1>c
<1>4. ASSUME NEW j \in Ticks, Tick(j) PROVE DispatchTypeOK'
  <2>1. Scheduler \in Senders /\ j \in Jobs
    BY DEF Senders, Jobs
  <2>2. SendersTypeOK'
    BY <1>4, <2>1, AdmitTypes DEF Tick, chats
  <2>3. LanesTypeOK' /\ RestTypeOK'
    BY <1>0, <1>4, <1>a DEF Tick, RestTypeOK, chats, workers
  <2> QED
    BY <2>2, <2>3, <1>c
<1>5. ASSUME NEW s \in Senders, Accept(s) PROVE DispatchTypeOK'
  <2>1. sender[s] \in Tasks /\ sender[s].gen <= epoch[Chat(sender[s])]
    BY <1>5 DEF DispatchTypeOK, Accept
  <2>2. LanesTypeOK'
    BY <1>0, <1>5, <2>1, AppendedLanes DEF Accept, chats, workers
  <2>3. SendersTypeOK'
    BY <1>5, DoneTypes DEF Accept, chats
  <2>4. RestTypeOK'
    BY <1>0, <1>5 DEF Accept, Commit, RestTypeOK, chats, workers
  <2> QED
    BY <2>2, <2>3, <2>4, <1>c
<1>6. ASSUME NEW s \in Senders, Refuse(s) PROVE DispatchTypeOK'
  <2>1. SendersTypeOK'
    BY <1>6, DoneTypes DEF Refuse, chats
  <2>2. LanesTypeOK' /\ RestTypeOK'
    BY <1>0, <1>6, <1>a DEF Refuse, RestTypeOK, chats, workers
  <2> QED
    BY <2>1, <2>2, <1>c
<1>7. ASSUME NEW s \in Senders, Panic(s) PROVE DispatchTypeOK'
  <2>1. SendersTypeOK'
    BY <1>7, DoneTypes DEF Panic, chats
  <2>2. LanesTypeOK' /\ RestTypeOK'
    BY <1>0, <1>7, <1>a DEF Panic, RestTypeOK, chats, workers
  <2> QED
    BY <2>1, <2>2, <1>c
<1>8. ASSUME NEW l \in Lanes, Take(l) PROVE DispatchTypeOK'
  <2>1. LanesTypeOK' /\ Head(queue[l]) \in Tasks
    BY <1>0, <1>8, TakenLanes DEF Take, chats
  <2>2. starts' \in [Jobs -> Nat]
    <3>1. Head(queue[l]).job \in Jobs
      BY <2>1 DEF Tasks
    <3> QED
      BY <1>8, <3>1 DEF Take, DispatchTypeOK
  <2>3. SendersTypeOK' /\ RestTypeOK'
    BY <1>0, <1>8, <1>b, <2>2 DEF Take, RestTypeOK, intake, chats
  <2> QED
    BY <2>1, <2>3, <1>c
<1>9. ASSUME NEW l \in Lanes, NEW t \in running[l], Finish(l, t) PROVE DispatchTypeOK'
  <2>1. LanesTypeOK'
    BY <1>0, <1>9 DEF Finish, LanesTypeOK, chats
  <2>2. SendersTypeOK' /\ RestTypeOK'
    BY <1>0, <1>9, <1>b DEF Finish, RestTypeOK, intake, chats
  <2> QED
    BY <2>1, <2>2, <1>c
<1>10. ASSUME NEW t \in running[Recovery], ResetChat(t) PROVE DispatchTypeOK'
  <2>1. Recovery \in Lanes
    BY DEF Lanes
  <2>2. t \in Tasks /\ Chat(t) \in Chats
    BY <2>1, LaneOfTask DEF DispatchTypeOK
  <2>3. /\ LanesTypeOK' /\ SendersTypeOK' /\ epoch' \in [Chats -> 0 .. MaxResets]
    BY <1>10, <2>2, RenewedTypes DEF ResetChat, intake
  <2>4. RestTypeOK'
    BY <1>0, <1>10, <2>2, <2>3 DEF ResetChat, Disowned, RestTypeOK, intake
  <2> QED
    BY <2>3, <2>4, <1>c
<1>11. ASSUME NEW l \in Lanes, Leave(l) \/ Close(l) PROVE DispatchTypeOK'
  <2>1. LanesTypeOK' /\ SendersTypeOK' /\ RestTypeOK'
    BY <1>0, <1>11, <1>a, <1>b DEF Leave, Close, RestTypeOK, intake, chats, workers
  <2> QED
    BY <2>1, <1>c
<1>12. ASSUME Cancel \/ UNCHANGED vars PROVE DispatchTypeOK'
  <2>1. LanesTypeOK' /\ SendersTypeOK' /\ RestTypeOK'
    BY <1>0, <1>12, <1>a, <1>b DEF Cancel, RestTypeOK, vars, intake, chats, workers
  <2> QED
    BY <2>1, <1>c
<1> QED
  BY <1>1, <1>2, <1>3, <1>4, <1>5, <1>6, <1>7, <1>8, <1>9, <1>10, <1>11, <1>12 DEF Next, Send
-----------------------------------------------------------------------------
(* Generations and workers *)

LEMMA OldKept == DispatchTypeOK /\ OldAreCancelled /\ [Next]_vars => OldAreCancelled'
<1> SUFFICES ASSUME DispatchTypeOK, OldAreCancelled, [Next]_vars PROVE OldAreCancelled'
  OBVIOUS
<1>1. CASE UNCHANGED chats
  BY <1>1 DEF OldAreCancelled, chats
<1>2. ASSUME NEW t \in running[Recovery], ResetChat(t) PROVE OldAreCancelled'
  <2> DEFINE c == Chat(t)
  <2>1. c \in Chats
    BY LaneOfTask DEF DispatchTypeOK, Lanes
  <2>2. /\ epoch'[c] = epoch[c] + 1 /\ \A d \in Chats \ {c} : epoch'[d] = epoch[d]
        /\ cancelled' = cancelled \cup {<<c, epoch[c]>>}
    BY <1>2, <2>1 DEF ResetChat, Disowned, DispatchTypeOK
  <2> HIDE DEF c
  <2>3. ASSUME NEW d \in Chats, NEW g \in 0 .. MaxResets PROVE <<d, g>> \in cancelled' <=> g < epoch'[d]
    <3>1. <<d, g>> \in cancelled <=> g < epoch[d]
      BY DEF OldAreCancelled
    <3>2. epoch[d] \in Nat /\ epoch[c] \in Nat
      BY <2>1 DEF DispatchTypeOK
    <3>3. CASE d = c
      BY <2>2, <3>1, <3>2, <3>3
    <3>4. CASE d # c
      BY <2>2, <3>1, <3>4
    <3> QED
      BY <3>3, <3>4
  <2> QED
    BY <2>3 DEF OldAreCancelled
<1>3. Next => UNCHANGED chats \/ \E t \in running[Recovery] : ResetChat(t)
  BY DEF Next, Deliver, DeliverAgain, Poll, Tick, Send, Accept, Refuse, Panic, Take, Finish, Leave,
         Close, Cancel
<1> QED
  BY <1>1, <1>2, <1>3 DEF vars

\* Who takes a task and who ends one.
LEMMA RunningChanges ==
  Next => \/ UNCHANGED running
          \/ \E l \in Lanes : Take(l)
          \/ \E l \in Lanes : \E t \in running[l] : Finish(l, t)
BY DEF Next, Deliver, DeliverAgain, Poll, Tick, Send, Accept, Refuse, Panic, ResetChat, Leave,
       Close, Cancel, workers

LEMMA OneWorkerKept == DispatchTypeOK /\ OneWorkerEach /\ [Next]_vars => OneWorkerEach'
<1> SUFFICES ASSUME DispatchTypeOK, OneWorkerEach, [Next]_vars PROVE OneWorkerEach'
  OBVIOUS
<1>1. CASE UNCHANGED running
  BY <1>1 DEF OneWorkerEach
<1>2. ASSUME NEW l \in Lanes, Take(l) PROVE OneWorkerEach'
  <2> DEFINE t == Head(queue[l])
  <2>1. IsFiniteSet(running[l])
    BY DEF OneWorkerEach
  <2>2. l \notin {Inline, Recovery} => running[l] = {}
    <3>1. Cardinality(running[l]) \in Nat /\ (Cardinality(running[l]) = 0 <=> running[l] = {})
      BY <2>1, FS_CardinalityType, FS_EmptySet
    <3> QED
      BY <1>2, <3>1 DEF Take, Room
  <2>3. running' = running \/ running' = [running EXCEPT ![l] = @ \cup {t}]
    BY <1>2 DEF Take
  <2>4. IsFiniteSet(running[l] \cup {t})
    BY <2>1, FS_AddElement
  <2> HIDE DEF t
  <2>5. CASE running' = [running EXCEPT ![l] = @ \cup {t}]
    <3>1. running'[l] = running[l] \cup {t} /\ \A m \in Lanes \ {l} : running'[m] = running[m]
      BY <2>5 DEF DispatchTypeOK
    <3>2. ASSUME NEW m \in Lanes
          PROVE  IsFiniteSet(running'[m]) /\ (m # l => running'[m] = running[m])
      <4>1. CASE m = l
        BY <2>4, <3>1, <4>1
      <4>2. CASE m # l
        BY <3>1, <4>2 DEF OneWorkerEach
      <4> QED
        BY <4>1, <4>2
    <3> QED
      BY <2>2, <3>1, <3>2 DEF OneWorkerEach
  <2> QED
    BY <1>1, <2>3, <2>5
<1>3. ASSUME NEW l \in Lanes, NEW t \in running[l], Finish(l, t) PROVE OneWorkerEach'
  <2>1. running'[l] = running[l] \ {t} /\ \A m \in Lanes \ {l} : running'[m] = running[m]
    BY <1>3 DEF Finish, DispatchTypeOK
  <2>2. IsFiniteSet(running[l] \ {t})
    BY FS_RemoveElement DEF OneWorkerEach
  <2>3. \A m \in Lanes : IsFiniteSet(running'[m]) /\ \A v \in running'[m] : v \in running[m]
    <3> SUFFICES ASSUME NEW m \in Lanes
                 PROVE  IsFiniteSet(running'[m]) /\ \A v \in running'[m] : v \in running[m]
      OBVIOUS
    <3>1. CASE m = l
      BY <2>1, <2>2, <3>1
    <3>2. CASE m # l
      BY <2>1, <3>2 DEF OneWorkerEach
    <3> QED
      BY <3>1, <3>2
  <2> QED
    BY <2>3 DEF OneWorkerEach
<1> QED
  BY <1>1, <1>2, <1>3, RunningChanges DEF vars, workers
-----------------------------------------------------------------------------
(* Where a job is *)

LEMMA Positions ==
  ASSUME DispatchTypeOK, NEW l \in Lanes, NEW i \in 1 .. Len(queue[l])
  PROVE  queue[l][i] \in Tasks /\ queue[l][i].job \in Jobs
<1>1. queue[l] \in Seq(Tasks)
  BY DEF DispatchTypeOK
<1>2. queue[l][i] \in Tasks
  BY <1>1, ElementOfSeq
<1> QED
  BY <1>2 DEF Tasks

LEMMA QueuedApart ==
  ASSUME InOnePlace, NEW l \in Lanes, NEW i \in 1 .. Len(queue[l]),
         NEW m \in Lanes, NEW k \in 1 .. Len(queue[m]), queue[l][i].job = queue[m][k].job
  PROVE  l = m /\ i = k
BY DEF InOnePlace, QueuedOnce

\* A job that is nowhere is admitted.
LEMMA AdmitOnce ==
  ASSUME DispatchTypeOK, InOnePlace, NEW s \in Senders, NEW j \in Jobs, Admit(s, j),
         ~Spent(j, ticks, seen), \A r \in Senders : sender[r].job # j,
         j \notin ticks', ticks' \subseteq ticks,
         pending \subseteq pending', j \in Updates => j \in pending' \ seen,
         UNCHANGED <<seen, queue, starts, epoch>>
  PROVE  InOnePlace'
<1>1. sender'[s] \in Tasks /\ sender'[s].job = j /\ \A r \in Senders \ {s} : sender'[r] = sender[r]
  BY AdmitTypes
<1>2. starts[j] = 0
  BY DEF InOnePlace, StartedOnce
<1>3. \A i \in Jobs : Spent(i, ticks, seen) => Spent(i, ticks', seen')
  BY DEF Spent
<1>4. HeldOnce'
  BY <1>1, <1>2 DEF InOnePlace, HeldOnce
<1>5. QueuedOnce'
  <2>1. ASSUME NEW l \in Lanes, NEW i \in 1 .. Len(queue[l])
        PROVE  /\ Spent(queue[l][i].job, ticks', seen')
               /\ \A r \in Senders : sender'[r].job # queue[l][i].job
    BY <1>1, <1>3, Positions DEF InOnePlace, QueuedOnce
  <2> QED
    BY <2>1 DEF InOnePlace, QueuedOnce, Spent
<1>6. StartedOnce'
  BY <1>3 DEF InOnePlace, StartedOnce, Spent
<1> QED
  BY <1>4, <1>5, <1>6 DEF InOnePlace

\* A job is given up: it is with nobody, and no other job is touched.
LEMMA WithdrawOnce ==
  ASSUME DispatchTypeOK, InOnePlace, NEW s \in Senders, sender[s] # NoTask, Done(s),
         pending' = pending \/ pending' = pending \ {sender[s].job},
         UNCHANGED <<ticks, seen, queue, starts, epoch>>
  PROVE  InOnePlace'
<1>1. sender'[s] = NoTask /\ \A r \in Senders \ {s} : sender'[r] = sender[r]
  BY DoneTypes
<1>2. HeldOnce'
  <2>1. ASSUME NEW r \in Senders, sender'[r] # NoTask
        PROVE  r # s /\ sender'[r] = sender[r] /\ sender[r].job # sender[s].job
    BY <1>1, <2>1 DEF InOnePlace, HeldOnce
  <2>2. \A r \in Senders : sender'[r].job \in Jobs => sender'[r] # NoTask
    BY NoTaskIsNoTask
  <2>3. \A r \in Senders : sender'[r] # NoTask => sender'[r].job \in Jobs
    BY <2>1 DEF DispatchTypeOK, Tasks
  <2> QED
    BY <2>1, <2>2, <2>3 DEF InOnePlace, HeldOnce
<1>3. QueuedOnce'
  <2>1. ASSUME NEW l \in Lanes, NEW i \in 1 .. Len(queue[l]), NEW r \in Senders
        PROVE  sender'[r].job # queue[l][i].job
    BY <1>1, NoTaskIsNoTask, Positions DEF InOnePlace, QueuedOnce
  <2> QED
    BY <2>1 DEF InOnePlace, QueuedOnce, Spent
<1>4. StartedOnce'
  BY DEF InOnePlace, StartedOnce, Spent
<1> QED
  BY <1>2, <1>3, <1>4 DEF InOnePlace

\* A job goes from its sender to the end of a queue.
LEMMA AcceptOnce ==
  ASSUME DispatchTypeOK, InOnePlace, NEW s \in Senders, Accept(s)
  PROVE  InOnePlace'
<1> DEFINE t == sender[s]
           m == LaneOf(t)
           n == Len(queue[m])
<1>1. t \in Tasks /\ t.job \in Jobs /\ t.gen <= epoch[Chat(t)]
  BY DEF DispatchTypeOK, Accept, Tasks
<1>2. /\ t.job \notin ticks /\ starts[t.job] = 0
      /\ \A r \in Senders : sender[r].job = t.job => r = s
  BY DEF InOnePlace, HeldOnce, Accept
<1>3. /\ Len(queue'[m]) = n + 1 /\ queue'[m][n + 1] = t
      /\ \A i \in 1 .. n : queue'[m][i] = queue[m][i]
      /\ \A l \in Lanes \ {m} : queue'[l] = queue[l]
  BY <1>1, TypeParts, AppendedLanes DEF Accept, chats, workers
<1>4. sender'[s] = NoTask /\ \A r \in Senders \ {s} : sender'[r] = sender[r]
  BY DoneTypes DEF Accept, chats
<1>5. m \in Lanes /\ n \in Nat
  BY <1>1, LaneOfTask, LenProperties DEF DispatchTypeOK
<1>6. /\ ticks' = ticks /\ starts' = starts /\ pending' = pending \ {t.job}
      /\ seen' = seen \cup ({t.job} \cap Updates)
  BY DEF Accept, Commit, workers
<1>7. Spent(t.job, ticks', seen') /\ \A j \in Jobs : Spent(j, ticks, seen) => Spent(j, ticks', seen')
  BY <1>2, <1>6 DEF Spent
<1>8. ASSUME NEW l \in Lanes, NEW i \in 1 .. Len(queue'[l])
      PROVE  \/ l = m /\ i = n + 1 /\ queue'[l][i] = t
             \/ i \in 1 .. Len(queue[l]) /\ queue'[l][i] = queue[l][i]
  <2>1. CASE l = m /\ i = n + 1
    BY <1>3, <2>1
  <2>2. CASE l = m /\ i # n + 1
    BY <1>3, <1>5, <2>2
  <2>3. CASE l # m
    BY <1>3, <2>3
  <2> QED
    BY <2>1, <2>2, <2>3
<1>9. ASSUME NEW l \in Lanes, NEW i \in 1 .. Len(queue[l]) PROVE queue[l][i].job # t.job
  BY DEF InOnePlace, QueuedOnce
<1> HIDE DEF t, m, n
<1>10. HeldOnce'
  <2>1. ASSUME NEW r \in Senders, sender'[r] # NoTask
        PROVE  r # s /\ sender'[r] = sender[r] /\ sender[r].job # t.job /\ sender[r].job \in Jobs
    <3>1. r # s /\ sender'[r] = sender[r] /\ sender[r].job # t.job
      BY <1>2, <1>4, <2>1
    <3> QED
      BY <2>1, <3>1 DEF DispatchTypeOK, Tasks
  <2>2. \A r \in Senders : sender'[r].job \in Jobs => sender'[r] # NoTask
    BY NoTaskIsNoTask
  <2> QED
    BY <1>6, <2>1, <2>2 DEF InOnePlace, HeldOnce
<1>11. QueuedOnce'
  <2>1. ASSUME NEW l \in Lanes, NEW i \in 1 .. Len(queue'[l])
        PROVE  /\ Spent(queue'[l][i].job, ticks', seen')
               /\ starts'[queue'[l][i].job] = 0
               /\ \A r \in Senders : sender'[r].job # queue'[l][i].job
    <3>1. CASE queue'[l][i] = t
      <4>1. \A r \in Senders : sender'[r].job # t.job
        BY <1>1, <1>2, <1>4, NoTaskIsNoTask
      <4> QED
        BY <1>2, <1>6, <1>7, <3>1, <4>1 DEF Spent
    <3>2. CASE i \in 1 .. Len(queue[l]) /\ queue'[l][i] = queue[l][i]
      <4> DEFINE q == queue[l][i].job
      <4>1. q \in Jobs
        BY <3>2, Positions
      <4>2. Spent(q, ticks, seen) /\ starts[q] = 0 /\ \A r \in Senders : sender[r].job # q
        BY <3>2 DEF InOnePlace, QueuedOnce
      <4>3. \A r \in Senders : sender'[r].job # q
        BY <1>4, <4>1, <4>2, NoTaskIsNoTask
      <4>4. Spent(q, ticks', seen')
        BY <1>6, <4>2 DEF Spent
      <4> QED
        BY <1>6, <3>2, <4>2, <4>3, <4>4 DEF Spent
    <3> QED
      BY <1>8, <3>1, <3>2
  <2>2. ASSUME NEW l \in Lanes, NEW i \in 1 .. Len(queue'[l]),
               NEW k \in Lanes, NEW o \in 1 .. Len(queue'[k]),
               queue'[k][o].job = queue'[l][i].job
        PROVE  k = l /\ o = i
    <3>1. CASE i \in 1 .. Len(queue[l]) /\ queue'[l][i] = queue[l][i]
      <4>1. queue'[k][o] # t
        BY <1>9, <2>2, <3>1
      <4>2. o \in 1 .. Len(queue[k]) /\ queue'[k][o] = queue[k][o]
        BY <1>8, <4>1
      <4> QED
        BY <2>2, <3>1, <4>2, QueuedApart
    <3>2. CASE l = m /\ i = n + 1 /\ queue'[l][i] = t
      <4>1. ~(o \in 1 .. Len(queue[k]) /\ queue'[k][o] = queue[k][o])
        BY <1>9, <2>2, <3>2
      <4> QED
        BY <1>8, <3>2, <4>1
    <3> QED
      BY <1>8, <3>1, <3>2
  <2> QED
    BY <2>1, <2>2 DEF QueuedOnce
<1>12. StartedOnce'
  BY <1>6, <1>7 DEF InOnePlace, StartedOnce
<1> QED
  BY <1>10, <1>11, <1>12 DEF InOnePlace

\* The first job of a queue is started or dropped.
LEMMA TakeOnce ==
  ASSUME DispatchTypeOK, InOnePlace, NEW l \in Lanes, Take(l)
  PROVE  InOnePlace'
<1> DEFINE t == Head(queue[l])
<1>1. /\ Len(queue[l]) \in Nat \ {0} /\ t = queue[l][1] /\ t \in Tasks
      /\ Len(queue'[l]) = Len(queue[l]) - 1
      /\ \A i \in 1 .. Len(queue'[l]) : queue'[l][i] = queue[l][i + 1]
      /\ \A m \in Lanes \ {l} : queue'[m] = queue[m]
  BY TypeParts, TakenLanes DEF Take, chats
<1>2. t.job \in Jobs
  BY <1>1 DEF Tasks
<1>3. 1 \in 1 .. Len(queue[l])
  BY <1>1
<1>4. /\ Spent(t.job, ticks, seen) /\ starts[t.job] = 0
      /\ \A s \in Senders : sender[s].job # t.job
      /\ \A m \in Lanes : \A k \in 1 .. Len(queue[m]) : queue[m][k].job = t.job => m = l /\ k = 1
  BY <1>1, <1>3 DEF InOnePlace, QueuedOnce
<1>5. /\ \A j \in Jobs \ {t.job} : starts'[j] = starts[j]
      /\ starts'[t.job] \in {0, 1}
      /\ UNCHANGED <<sender, ticks, seen, pending>>
  BY <1>2, <1>4 DEF Take, DispatchTypeOK, intake
<1>6. ASSUME NEW m \in Lanes, NEW i \in 1 .. Len(queue'[m])
      PROVE  \E k \in 1 .. Len(queue[m]) :
               /\ k = IF m = l THEN i + 1 ELSE i
               /\ queue'[m][i] = queue[m][k] /\ queue[m][k].job # t.job
  <2>1. CASE m = l
    <3>1. i \in 1 .. Len(queue[l]) - 1
      BY <1>1, <2>1
    <3>2. i + 1 \in 1 .. Len(queue[l]) /\ i + 1 # 1
      BY <1>1, <3>1
    <3> QED
      BY <1>1, <1>4, <2>1, <3>2
  <2>2. CASE m # l
    BY <1>1, <1>4, <2>2
  <2> QED
    BY <2>1, <2>2
<1> HIDE DEF t
<1>7. HeldOnce'
  BY <1>4, <1>5, NoTaskIsNoTask DEF InOnePlace, HeldOnce, DispatchTypeOK, Tasks
<1>8. QueuedOnce'
  <2>1. ASSUME NEW m \in Lanes, NEW i \in 1 .. Len(queue'[m])
        PROVE  /\ Spent(queue'[m][i].job, ticks', seen')
               /\ starts'[queue'[m][i].job] = 0
               /\ \A s \in Senders : sender'[s].job # queue'[m][i].job
    <3>1. PICK k \in 1 .. Len(queue[m]) :
            /\ k = IF m = l THEN i + 1 ELSE i
            /\ queue'[m][i] = queue[m][k] /\ queue[m][k].job # t.job
      BY <1>6, Zenon
    <3>2. queue[m][k].job \in Jobs
      BY <3>1, Positions
    <3> QED
      BY <1>5, <3>1, <3>2 DEF InOnePlace, QueuedOnce, Spent
  <2>2. ASSUME NEW m \in Lanes, NEW i \in 1 .. Len(queue'[m]),
               NEW k \in Lanes, NEW o \in 1 .. Len(queue'[k]),
               queue'[k][o].job = queue'[m][i].job
        PROVE  k = m /\ o = i
    <3>1. PICK x \in 1 .. Len(queue[m]) :
            /\ x = IF m = l THEN i + 1 ELSE i
            /\ queue'[m][i] = queue[m][x] /\ queue[m][x].job # t.job
      BY <1>6, Zenon
    <3>2. PICK y \in 1 .. Len(queue[k]) :
            /\ y = IF k = l THEN o + 1 ELSE o
            /\ queue'[k][o] = queue[k][y] /\ queue[k][y].job # t.job
      BY <1>6, Zenon
    <3>5. queue[k][y].job = queue[m][x].job
      BY <2>2, <3>1, <3>2, Zenon
    <3>3. k = m /\ y = x
      BY <3>5, QueuedApart
    <3>4. i \in Int /\ o \in Int
      BY <1>1, LenProperties
    <3> QED
      BY <3>1, <3>2, <3>3, <3>4
  <2> QED
    BY <2>1, <2>2 DEF QueuedOnce
<1>9. StartedOnce'
  BY <1>4, <1>5 DEF InOnePlace, StartedOnce, Spent
<1> QED
  BY <1>7, <1>8, <1>9 DEF InOnePlace
LEMMA OnePlaceKept == DispatchTypeOK /\ InOnePlace /\ [Next]_vars => InOnePlace'
<1> SUFFICES ASSUME DispatchTypeOK, InOnePlace, [Next]_vars PROVE InOnePlace'
  OBVIOUS
<1>a. ASSUME NEW j \in Jobs, NEW s \in Senders, sender[s].job = j PROVE sender[s] # NoTask
  BY <1>a, NoTaskIsNoTask
<1>b. Updates \subseteq Jobs /\ Ticks \subseteq Jobs /\ Updates \cap Ticks = {}
  BY DEF Jobs
<1>1. CASE UNCHANGED <<sender, queue, starts, seen, ticks, pending>>
  BY <1>1 DEF InOnePlace, HeldOnce, QueuedOnce, StartedOnce, Spent
<1>2. ASSUME NEW h \in Handlers, NEW u \in Updates, Deliver(h, u) PROVE InOnePlace'
  <2>1. \A r \in Senders : sender[r].job # u
    BY <1>2, <1>a, <1>b DEF InOnePlace, HeldOnce, Deliver, Fresh
  <2>2. u \in Jobs /\ u \notin ticks /\ h \in Senders /\ u \notin pending \cup seen
    BY <1>2, <1>b DEF DispatchTypeOK, Senders, Deliver, Fresh
  <2>3. ~Spent(u, ticks, seen)
    BY <2>2 DEF Spent
  <2> QED
    BY <1>2, <2>1, <2>2, <2>3, AdmitOnce DEF Deliver, chats, workers
<1>3. ASSUME NEW u \in Updates, Poll(u) PROVE InOnePlace'
  <2>1. \A r \in Senders : sender[r].job # u
    BY <1>3, <1>a, <1>b DEF InOnePlace, HeldOnce, Poll, Fresh
  <2>2. u \in Jobs /\ u \notin ticks /\ Poller \in Senders /\ u \notin pending \cup seen
    BY <1>3, <1>b DEF DispatchTypeOK, Senders, Poll, Fresh
  <2>3. ~Spent(u, ticks, seen)
    BY <2>2 DEF Spent
  <2> QED
    BY <1>3, <2>1, <2>2, <2>3, AdmitOnce DEF Poll, chats, workers
<1>4. ASSUME NEW j \in Ticks, Tick(j) PROVE InOnePlace'
  <2>1. \A r \in Senders : sender[r].job # j
    BY <1>4, <1>a, <1>b DEF InOnePlace, HeldOnce, Tick
  <2>2. j \in Jobs /\ j \notin Updates /\ j \in ticks /\ Scheduler \in Senders
    BY <1>4, <1>b DEF Senders, Tick
  <2>3. ~Spent(j, ticks, seen)
    BY <2>2 DEF Spent
  <2> QED
    BY <1>4, <2>1, <2>2, <2>3, AdmitOnce DEF Tick, chats, workers
<1>5. ASSUME NEW s \in Senders, Refuse(s) \/ Panic(s) PROVE InOnePlace'
  BY <1>5, WithdrawOnce DEF Refuse, Panic, chats, workers
<1>6. Next =>
        \/ UNCHANGED <<sender, queue, starts, seen, ticks, pending>>
        \/ \E h \in Handlers, u \in Updates : Deliver(h, u)
        \/ \E u \in Updates : Poll(u)
        \/ \E j \in Ticks : Tick(j)
        \/ \E s \in Senders : Accept(s) \/ Refuse(s) \/ Panic(s)
        \/ \E l \in Lanes : Take(l)
  BY DEF Next, Send, DeliverAgain, Finish, ResetChat, Leave, Close, Cancel, intake, workers
<1> QED
  BY <1>1, <1>2, <1>3, <1>4, <1>5, <1>6, AcceptOnce, TakeOnce DEF vars, intake, workers

\* The invariant of the dispatcher is inductive.
THEOREM DispatchInvariant == Spec => []DispatchInv
<1>1. DispatchInv /\ [Next]_vars => DispatchInv'
  BY TypesKept, OldKept, OneWorkerKept, OnePlaceKept DEF DispatchInv
<1> QED
  BY InitInv, <1>1, PTL DEF Spec

\* What waits and what runs is in its queue, within the capacity, and of a
\* generation that its chat has had.
THEOREM DispatchTypes == Spec => []DispatchTypeOK
<1>1. DispatchInv => DispatchTypeOK
  BY DEF DispatchInv
<1> QED
  BY <1>1, DispatchInvariant, PTL

\* However often Telegram delivers an update, a worker starts it once.
THEOREM NothingTwice == Spec => []HandledOnce
<1>1. DispatchInv => HandledOnce
  <2>1. \A n \in {0, 1} : n <= 1
    OBVIOUS
  <2> QED
    BY <2>1 DEF DispatchInv, InOnePlace, StartedOnce, HandledOnce
<1> QED
  BY <1>1, DispatchInvariant, PTL

\* A live task is of the current generation of its chat, since the contexts
\* of the others are cancelled, so that two of them share the queue of that
\* generation, and a queue has one worker.
LEMMA LiveAlone == DispatchInv => OneAtATime
<1> SUFFICES ASSUME DispatchInv PROVE OneAtATime
  OBVIOUS
<1>1. ASSUME NEW t \in InHand PROVE t \in Tasks /\ LaneOf(t) \in Lanes /\ t \in running[LaneOf(t)]
  BY DEF DispatchInv, DispatchTypeOK, InHand
<1>2. ASSUME NEW t \in InHand, Live(t) PROVE Current(t)
  <2>1. t.gen \in 0 .. MaxResets /\ Chat(t) \in Chats /\ <<Chat(t), t.gen>> \notin cancelled
    BY <1>1, <1>2, LaneOfTask DEF Tasks, Live, Cancelled
  <2>2. ~(t.gen < epoch[Chat(t)])
    BY <2>1 DEF DispatchInv, OldAreCancelled
  <2>3. t.gen <= epoch[Chat(t)] /\ epoch[Chat(t)] \in Nat
    BY <1>1, <2>1 DEF DispatchInv, DispatchTypeOK
  <2> QED
    BY <2>1, <2>2, <2>3 DEF Current
<1>3. ASSUME NEW t \in InHand, Live(t), NEW v \in InHand, Live(v), Chat(v) = Chat(t) PROVE v = t
  <2>1. Current(t) /\ Current(v)
    BY <1>2, <1>3
  <2>2. LaneOf(t) = LaneOf(v) /\ LaneOf(t) \notin {Inline, Recovery}
    BY <1>1, <1>3, <2>1, LaneOfTask DEF Live, Current
  <2> QED
    BY <1>1, <2>2 DEF DispatchInv, OneWorkerEach
<1> QED
  BY <1>2, <1>3 DEF OneAtATime

\* A task that outlives a reset cannot act on the next game of its chat, and
\* no two tasks that may act on one game run together.
THEOREM OneLiveTask == Spec => []OneAtATime
BY LiveAlone, DispatchInvariant, PTL
-----------------------------------------------------------------------------
(* The lane of each chat *)

LEMMA JobsOfTasks ==
  ASSUME NEW s \in Seq(Tasks)
  PROVE  /\ JobsIn(s) \in Seq(Jobs) /\ Len(JobsIn(s)) = Len(s)
         /\ \A i \in 1 .. Len(s) : JobsIn(s)[i] = s[i].job
<1>1. Len(s) \in Nat /\ \A i \in 1 .. Len(s) : s[i].job \in Jobs
  <2>1. \A i \in 1 .. Len(s) : s[i] \in Tasks
    BY ElementOfSeq
  <2> QED
    BY <2>1, LenProperties DEF Tasks
<1> DEFINE n == Len(s)
           f == [i \in 1 .. n |-> s[i].job]
<1>2. f \in Seq(Jobs) /\ Len(f) = n
  <2>1. f \in [1 .. n -> Jobs]
    BY <1>1
  <2>2. f \in Seq(Jobs)
    BY <1>1, <2>1, SeqDef
  <2>3. DOMAIN f = 1 .. Len(f) /\ Len(f) \in Nat
    BY <2>2, LenProperties
  <2>4. DOMAIN f = 1 .. n
    OBVIOUS
  <2> HIDE DEF f, n
  <2>5. n \in Nat
    BY <1>1 DEF n
  <2>6. \A k \in Nat : 1 .. k = 1 .. n => k = n
    <3>1. ASSUME NEW k \in Nat, 1 .. k = 1 .. n PROVE k <= n /\ n <= k
      <4>1. k # 0 => k \in 1 .. k
        OBVIOUS
      <4>2. n # 0 => n \in 1 .. n
        BY <2>5
      <4> QED
        BY <2>5, <3>1, <4>1, <4>2
    <3> QED
      BY <2>5, <3>1
  <2> QED
    BY <2>2, <2>3, <2>4, <2>6
<1> QED
  BY <1>2 DEF JobsIn

LEMMA JobsOfNone == JobsIn(<<>>) = <<>>
<1>1. <<>> \in Seq(Tasks)
  BY EmptySeq
<1>2. JobsIn(<<>>) \in Seq(Jobs) /\ Len(JobsIn(<<>>)) = 0
  BY <1>1, JobsOfTasks, EmptySeq
<1> QED
  BY <1>2, EmptySeq

LEMMA JobsOfAppend ==
  ASSUME NEW s \in Seq(Tasks), NEW t \in Tasks
  PROVE  JobsIn(Append(s, t)) = Append(JobsIn(s), t.job)
<1> DEFINE a == Append(s, t)
           b == Append(JobsIn(s), t.job)
<1>1. /\ a \in Seq(Tasks) /\ Len(a) = Len(s) + 1 /\ a[Len(s) + 1] = t
      /\ \A i \in 1 .. Len(s) : a[i] = s[i]
  BY AppendProperties
<1>2. JobsIn(s) \in Seq(Jobs) /\ Len(JobsIn(s)) = Len(s) /\ t.job \in Jobs
  BY JobsOfTasks DEF Tasks
<1>3. /\ b \in Seq(Jobs) /\ Len(b) = Len(s) + 1 /\ b[Len(s) + 1] = t.job
      /\ \A i \in 1 .. Len(s) : b[i] = JobsIn(s)[i]
  BY <1>2, AppendProperties
<1> HIDE DEF a, b
<1>4. JobsIn(a) \in Seq(Jobs) /\ Len(JobsIn(a)) = Len(s) + 1
  BY <1>1, JobsOfTasks
<1>5. ASSUME NEW i \in 1 .. Len(s) + 1 PROVE JobsIn(a)[i] = b[i]
  <2>1. Len(s) \in Nat
    BY LenProperties
  <2>2. JobsIn(a)[i] = a[i].job
    BY <1>1, JobsOfTasks
  <2>3. CASE i = Len(s) + 1
    BY <1>1, <1>3, <2>2, <2>3
  <2>4. CASE i \in 1 .. Len(s)
    BY <1>1, <1>3, <2>2, <2>4, JobsOfTasks
  <2> QED
    BY <2>1, <2>3, <2>4
<1>6. JobsIn(a) = b
  BY <1>3, <1>4, <1>5, SeqEqual
<1> QED
  BY <1>6 DEF a, b

LEMMA JobsOfTail ==
  ASSUME NEW s \in Seq(Tasks), s # <<>>
  PROVE  /\ JobsIn(s) # <<>>
         /\ Head(JobsIn(s)) = Head(s).job
         /\ Tail(JobsIn(s)) = JobsIn(Tail(s))
<1> DEFINE j == JobsIn(s)
           r == Tail(s)
<1>1. j \in Seq(Jobs) /\ Len(j) = Len(s) /\ \A i \in 1 .. Len(s) : j[i] = s[i].job
  BY JobsOfTasks
<1>2. Len(s) \in Nat \ {0}
  BY EmptySeq
<1>3. j # <<>>
  BY <1>1, <1>2, EmptySeq
<1>4. /\ Head(s) = s[1] /\ r \in Seq(Tasks) /\ Len(r) = Len(s) - 1
      /\ \A i \in 1 .. Len(r) : r[i] = s[i + 1]
  BY HeadTailProperties
<1> HIDE DEF j, r
<1>5. /\ Head(j) = j[1] /\ Tail(j) \in Seq(Jobs) /\ Len(Tail(j)) = Len(j) - 1
      /\ \A i \in 1 .. Len(Tail(j)) : Tail(j)[i] = j[i + 1]
  BY <1>1, <1>3, HeadTailProperties
<1>6. JobsIn(r) \in Seq(Jobs) /\ Len(JobsIn(r)) = Len(r) /\ \A i \in 1 .. Len(r) : JobsIn(r)[i] = r[i].job
  BY <1>4, JobsOfTasks
<1>7. ASSUME NEW i \in 1 .. Len(r) PROVE Tail(j)[i] = JobsIn(r)[i]
  <2>1. i \in 1 .. Len(Tail(j)) /\ i + 1 \in 1 .. Len(s)
    BY <1>1, <1>2, <1>4, <1>5
  <2> QED
    BY <1>1, <1>4, <1>5, <1>6, <2>1
<1>8. Len(Tail(j)) = Len(r)
  BY <1>1, <1>4, <1>5
<1>9. Tail(j) = JobsIn(r)
  BY <1>5, <1>6, <1>7, <1>8, SeqEqual
<1>10. Head(j) = Head(s).job
  BY <1>1, <1>2, <1>4, <1>5
<1> QED
  BY <1>3, <1>9, <1>10 DEF j, r
LEMMA ServedByLane ==
  ASSUME DispatchTypeOK, NEW c \in Chats
  PROVE  ServedBy(c) \in Lanes \ {Inline, Recovery}
<1>1. QueueOf[c] \in Partitions /\ epoch[c] \in 0 .. MaxResets
  BY DEF DispatchTypeOK
<1>2. epoch[c] # 0 => <<c, epoch[c]>> \in OwnLanes
  BY <1>1 DEF OwnLanes
<1> QED
  BY <1>1, <1>2 DEF ServedBy, Lanes

\* What is in the queue that serves a chat is for chats, and what is there
\* for that chat is of its current generation.
LEMMA ServedIsCurrent ==
  ASSUME DispatchTypeOK, NEW c \in Chats, NEW t \in Tasks, LaneOf(t) = ServedBy(c)
  PROVE  t.job \in Messages \cup Ticks /\ (Chat(t) = c => Current(t))
<1>1. t.job \in Messages \cup Ticks
  BY ServedByLane DEF LaneOf, Tasks, Jobs, Updates
<1>2. ASSUME Chat(t) = c PROVE epoch[c] = t.gen
  <2>1. /\ LaneOf(t) = IF t.gen = 0 THEN QueueOf[c] ELSE <<c, t.gen>>
        /\ QueueOf[c] \in Partitions /\ epoch[c] \in 0 .. MaxResets /\ t.gen \in 0 .. MaxResets
    BY <1>1, <1>2, LaneOfTask DEF DispatchTypeOK, Tasks
  <2>2. \A g \in 0 .. MaxResets : g # 0 => <<c, g>> \notin Partitions
    BY DEF OwnLanes
  <2>3. CASE t.gen = 0
    BY <2>1, <2>2, <2>3 DEF ServedBy
  <2>4. CASE t.gen # 0
    BY <2>1, <2>2, <2>4 DEF ServedBy
  <2> QED
    BY <2>3, <2>4
<1> QED
  BY <1>1, <1>2 DEF Current

LEMMA CurrentIsServed ==
  ASSUME NEW t \in Tasks, t.job \in Messages \cup Ticks, Current(t)
  PROVE  LaneOf(t) = ServedBy(Chat(t))
BY LaneOfTask DEF Current, ServedBy

\* The live tasks of a chat are in the hands of the worker that serves it.
Serving(c) == {t \in running[ServedBy(c)] : Chat(t) = c}

LiveIsServing ==
  \A c \in Chats : LiveOf(c) = Serving(c) /\ \A t, v \in Serving(c) : t = v

LEMMA LiveAreServed == DispatchInv /\ life = "up" => LiveIsServing
<1> SUFFICES ASSUME DispatchInv, life = "up", NEW c \in Chats
             PROVE  LiveOf(c) = Serving(c) /\ \A t, v \in Serving(c) : t = v
  BY DEF LiveIsServing
<1>0. DispatchTypeOK /\ ServedBy(c) \in Lanes \ {Inline, Recovery}
  BY ServedByLane DEF DispatchInv
<1>1. ASSUME NEW t \in LiveOf(c) PROVE t \in Serving(c)
  <2>1. t \in Tasks /\ t \in running[LaneOf(t)] /\ Live(t) /\ Current(t) /\ Chat(t) = c
    BY <1>0 DEF DispatchTypeOK, LiveOf, InHand
  <2>2. LaneOf(t) = ServedBy(c)
    BY <2>1, CurrentIsServed DEF Live
  <2> QED
    BY <2>1, <2>2 DEF Serving
<1>2. ASSUME NEW t \in Serving(c) PROVE t \in LiveOf(c)
  <2>1. t \in Tasks /\ LaneOf(t) = ServedBy(c) /\ Chat(t) = c /\ t \in InHand
    BY <1>0 DEF DispatchTypeOK, Serving, InHand
  <2>2. t.job \in Messages \cup Ticks /\ Current(t)
    BY <1>0, <2>1, ServedIsCurrent
  <2>3. t.gen \in 0 .. MaxResets /\ epoch[c] \in Nat /\ epoch[c] = t.gen
    BY <1>0, <2>1, <2>2 DEF DispatchTypeOK, Tasks, Current
  <2>4. <<c, t.gen>> \notin cancelled
    BY <2>3 DEF DispatchInv, OldAreCancelled
  <2> QED
    BY <2>1, <2>2, <2>4 DEF LiveOf, Live, Cancelled
<1>3. \A t, v \in Serving(c) : t = v
  BY <1>0 DEF DispatchInv, OneWorkerEach, Serving
<1> QED
  BY <1>1, <1>2, <1>3

\* What a chat has waiting and who works for it follow from these two.
LEMMA SameChat ==
  ASSUME NEW c, life = "up", life' = "up", LiveOf(c)' = LiveOf(c),
         Sift(queue'[ServedBy(c)'], OwnTasks(c)) = Sift(queue[ServedBy(c)], OwnTasks(c))
  PROVE  WaitingOf(c)' = WaitingOf(c) /\ WorkOf(c)' = WorkOf(c)
BY DEF WaitingOf, WorkOf

LEMMA ClosedChat ==
  ASSUME NEW c, life # "up"
  PROVE  WaitingOf(c) = <<>> /\ WorkOf(c) = None
BY DEF WaitingOf, WorkOf, LiveOf, Live, Cancelled
-----------------------------------------------------------------------------
(* Each step is a step of the lanes *)

Waiting == [c \in Chats |-> WaitingOf(c)]
Working == [c \in Chats |-> WorkOf(c)]
LanesStep == [Promise!Next]_<<Waiting, Working, life = "up">>

LEMMA StillStep ==
  ASSUME \A c \in Chats : WaitingOf(c)' = WaitingOf(c) /\ WorkOf(c)' = WorkOf(c),
         life' = "up" <=> life = "up"
  PROVE  LanesStep
<1>1. Waiting' = Waiting /\ Working' = Working
  BY DEF Waiting, Working
<1>2. (life = "up")' = (life = "up")
  OBVIOUS
<1> QED
  BY <1>1, <1>2 DEF LanesStep

\* Nothing that the lanes depend on changes.
LEMMA UnmovedStep ==
  ASSUME UNCHANGED <<queue, running, epoch, cancelled>>, life' = "up" <=> life = "up",
         life \in {"up", "stopping", "crashed"}, life' \in {"up", "stopping", "crashed"}
  PROVE  LanesStep
<1>1. CASE life = "up"
  <2>1. \A c \in Chats : LiveOf(c)' = LiveOf(c) /\ ServedBy(c)' = ServedBy(c)
    BY <1>1 DEF LiveOf, InHand, Live, Cancelled, Current, ServedBy
  <2> QED
    BY <1>1, <2>1, SameChat, StillStep
<1>2. CASE life # "up"
  <2>1. \A c \in Chats : WaitingOf(c)' = <<>> /\ WorkOf(c)' = None
    BY <1>2 DEF WaitingOf, WorkOf, LiveOf, Live, Cancelled
  <2> QED
    BY <1>2, <2>1, ClosedChat, StillStep
<1> QED
  BY <1>1, <1>2

\* A task for the queue that serves its chat joins the lane of the chat.
LEMMA AcceptStep ==
  ASSUME DispatchTypeOK, NEW s \in Senders, Accept(s), life = "up"
  PROVE  LanesStep
<1>0. PICK t \in Tasks, m \in Lanes, c \in Chats : t = sender[s] /\ m = LaneOf(t) /\ c = Chat(t)
  BY LaneOfTask DEF DispatchTypeOK, Accept
<1>1. t \in Tasks /\ t.job \in Jobs /\ m \in Lanes /\ c \in Chats
  BY DEF Tasks
<1>2. /\ queue[m] \in Seq(Tasks) /\ queue'[m] = Append(queue[m], t)
      /\ \A l \in Lanes \ {m} : queue'[l] = queue[l]
      /\ Len(queue[m]) < Capacity
  BY <1>0 DEF DispatchTypeOK, Accept
<1>3. life' = "up" /\ UNCHANGED <<running, epoch, cancelled>>
  BY DEF Accept, chats, workers
<1>4. \A d \in Chats : LiveOf(d)' = LiveOf(d) /\ ServedBy(d)' = ServedBy(d) /\ ServedBy(d) \in Lanes
  BY <1>3, ServedByLane DEF LiveOf, InHand, Live, Cancelled, Current, ServedBy
<1>5. \A d \in Chats : t \in OwnTasks(d) <=> d = c
  BY <1>0 DEF OwnTasks
<1>6. ASSUME NEW d \in Chats
      PROVE  Sift(Append(queue[m], t), OwnTasks(d)) =
               IF d = c THEN Append(Sift(queue[m], OwnTasks(d)), t) ELSE Sift(queue[m], OwnTasks(d))
  <2> DEFINE q == queue[m]
             o == OwnTasks(d)
  <2>1. q \in Seq(Tasks) /\ (t \in o <=> d = c)
    BY <1>2, <1>5
  <2> HIDE DEF q, o
  <2>2. Sift(Append(q, t), o) = IF t \in o THEN Append(Sift(q, o), t) ELSE Sift(q, o)
    BY <2>1, SiftAppend
  <2> QED
    BY <2>1, <2>2 DEF q, o
<1>7. ASSUME NEW d \in Chats, d # c \/ m # ServedBy(c)
      PROVE  WaitingOf(d)' = WaitingOf(d) /\ WorkOf(d)' = WorkOf(d)
  <2>1. CASE ServedBy(d) = m
    BY <1>2, <1>3, <1>4, <1>6, <1>7, <2>1, SameChat
  <2>2. CASE ServedBy(d) # m
    BY <1>2, <1>3, <1>4, <2>2, SameChat
  <2> QED
    BY <2>1, <2>2
<1>8. CASE m # ServedBy(c)
  BY <1>3, <1>7, <1>8, StillStep
<1>9. CASE m = ServedBy(c)
  <2> DEFINE w == Sift(queue[m], OwnTasks(c))
  <2>1. w \in Seq(Tasks) /\ Len(w) <= Len(queue[m])
    BY <1>2, SiftIsSeq
  <2>2. WaitingOf(c) = JobsIn(w)
    BY <1>9 DEF WaitingOf
  <2>3. WaitingOf(c)' = JobsIn(Append(w, t))
    BY <1>1, <1>2, <1>3, <1>4, <1>6, <1>9 DEF WaitingOf
  <2> HIDE DEF w
  <2>4. WaitingOf(c)' = Append(WaitingOf(c), t.job) /\ Len(WaitingOf(c)) < Capacity
    <3>1. Len(w) \in Nat /\ Len(queue[m]) \in Nat /\ Len(JobsIn(w)) = Len(w)
      BY <1>2, <2>1, LenProperties, JobsOfTasks
    <3> QED
      BY <1>1, <1>2, <2>1, <2>2, <2>3, <3>1, JobsOfAppend
  <2>5. WorkOf(c)' = WorkOf(c)
    <3>1. LiveOf(c)' = LiveOf(c)
      BY <1>4
    <3> QED
      BY <3>1 DEF WorkOf
  <2>6. Waiting' = [Waiting EXCEPT ![c] = Append(@, t.job)] /\ Len(Waiting[c]) < Capacity
    BY <1>1, <1>7, <2>4 DEF Waiting
  <2>7. Working' = Working
    BY <1>7, <2>5 DEF Working
  <2>8. Promise!Accept(c, t.job)
    BY <1>3, <2>6, <2>7 DEF Promise!Accept, Waiting, Working
  <2> QED
    BY <1>1, <2>8 DEF LanesStep, Promise!Next
<1> QED
  BY <1>8, <1>9
\* The worker that serves a chat starts the first job of its lane.  What is
\* taken elsewhere, or discarded, was in no lane.
LEMMA TakeStep ==
  ASSUME DispatchInv, LiveIsServing, LiveIsServing', NEW l \in Lanes, Take(l), life = "up"
  PROVE  LanesStep
<1>0. DispatchTypeOK /\ queue[l] # <<>> /\ queue[l] \in Seq(Tasks)
  BY DEF Take, DispatchInv, DispatchTypeOK
<1>a. Head(queue[l]) \in Tasks /\ 1 \in 1 .. Len(queue[l]) /\ Head(queue[l]) = queue[l][1]
  BY <1>0, EmptySeq, HeadTailProperties
<1>b. LaneOf(queue[l][1]) = l
  BY <1>0, <1>a DEF DispatchTypeOK
<1>c. PICK t \in Tasks, c \in Chats : t = Head(queue[l]) /\ c = Chat(t)
  BY <1>a, LaneOfTask
<1>1. LaneOf(t) = l
  BY <1>a, <1>b, <1>c
<1>2. /\ queue'[l] = Tail(queue[l])
      /\ \A m \in Lanes \ {l} : queue'[m] = queue[m]
      /\ life' = "up" /\ UNCHANGED <<epoch, cancelled>>
  BY <1>0 DEF Take, DispatchTypeOK, chats
<1>3. \/ Runs(l, t) /\ running' = [running EXCEPT ![l] = @ \cup {t}]
      \/ ~Runs(l, t) /\ running' = running
  BY <1>c DEF Take
<1>4. \A d \in Chats : ServedBy(d)' = ServedBy(d) /\ ServedBy(d) \in Lanes \ {Inline, Recovery}
  BY <1>0, <1>2, ServedByLane DEF ServedBy
<1>5. \A d \in Chats : t \in OwnTasks(d) <=> d = c
  BY <1>c DEF OwnTasks
<1>6. ASSUME NEW d \in Chats
      PROVE  LET w == Sift(queue[l], OwnTasks(d))
             IN  IF d = c
                 THEN w # <<>> /\ Head(w) = t /\ Tail(w) = Sift(Tail(queue[l]), OwnTasks(d))
                 ELSE w = Sift(Tail(queue[l]), OwnTasks(d))
  <2> DEFINE q == queue[l]
             o == OwnTasks(d)
  <2>1. q \in Seq(Tasks) /\ q # <<>> /\ Head(q) = t /\ (t \in o <=> d = c)
    BY <1>0, <1>5, <1>c
  <2> HIDE DEF q, o
  <2>2. IF Head(q) \in o
        THEN Sift(q, o) # <<>> /\ Head(Sift(q, o)) = Head(q) /\ Tail(Sift(q, o)) = Sift(Tail(q), o)
        ELSE Sift(q, o) = Sift(Tail(q), o)
    BY <2>1, SiftTail
  <2> QED
    BY <2>1, <2>2 DEF q, o
<1>7. ASSUME NEW d \in Chats, d # c \/ l # ServedBy(c)
      PROVE  LiveOf(d)' = LiveOf(d)
  <2>1. ~(ServedBy(d) = l /\ Chat(t) = d)
    BY <1>7, <1>c
  <2>2. Serving(d)' = Serving(d)
    BY <1>0, <1>3, <1>4, <2>1 DEF Serving, DispatchTypeOK
  <2> QED
    BY <2>2 DEF LiveIsServing
<1>8. ASSUME NEW d \in Chats, d # c \/ l # ServedBy(c)
      PROVE  WaitingOf(d)' = WaitingOf(d) /\ WorkOf(d)' = WorkOf(d)
  <2>1. Sift(queue'[ServedBy(d)'], OwnTasks(d)) = Sift(queue[ServedBy(d)], OwnTasks(d))
    BY <1>2, <1>4, <1>6, <1>8
  <2> QED
    BY <1>2, <1>7, <1>8, <2>1, SameChat
<1>9. CASE l # ServedBy(c)
  BY <1>2, <1>8, <1>9, StillStep
<1>10. CASE l = ServedBy(c)
  <2> DEFINE w == Sift(queue[l], OwnTasks(c))
  <2>1. w \in Seq(Tasks) /\ w # <<>> /\ Head(w) = t /\ Tail(w) = Sift(Tail(queue[l]), OwnTasks(c))
    BY <1>0, <1>6, SiftIsSeq
  <2>2. WaitingOf(c) = JobsIn(w)
    BY <1>10 DEF WaitingOf
  <2>3. WaitingOf(c)' = JobsIn(Tail(w))
    BY <1>2, <1>4, <1>10, <2>1 DEF WaitingOf
  <2> HIDE DEF w
  <2>4. WaitingOf(c) # <<>> /\ Head(WaitingOf(c)) = t.job /\ WaitingOf(c)' = Tail(WaitingOf(c))
    BY <2>1, <2>2, <2>3, JobsOfTail
  <2>5. running[l] = {}
    <3>1. IsFiniteSet(running[l]) /\ l \notin {Inline, Recovery}
      BY <1>4, <1>10 DEF DispatchInv, OneWorkerEach
    <3>2. Cardinality(running[l]) \in Nat /\ (Cardinality(running[l]) = 0 <=> running[l] = {})
      BY <3>1, FS_CardinalityType, FS_EmptySet
    <3> QED
      BY <3>1, <3>2 DEF Take, Room
  <2>6. running'[l] = {t}
    <3>1. Runs(l, t)
      BY <1>0, <1>1, <1>10, <1>c, ServedIsCurrent DEF Runs
    <3> QED
      BY <1>0, <1>3, <2>5, <3>1 DEF DispatchTypeOK
  <2>7. LiveOf(c) = {}
    BY <1>10, <2>5 DEF LiveIsServing, Serving
  <2>8. LiveOf(c)' = {t}
    <3>1. Serving(c)' = {t}
      BY <1>4, <1>10, <1>c, <2>6 DEF Serving
    <3> QED
      BY <3>1 DEF LiveIsServing
  <2>9. WorkOf(c) = None
    BY <2>7 DEF WorkOf
  <2>10. WorkOf(c)' = t.job
    BY <2>8 DEF WorkOf
  <2>11. /\ Waiting' = [Waiting EXCEPT ![c] = Tail(@)]
         /\ Waiting[c] # <<>> /\ Head(Waiting[c]) = t.job
    BY <1>8, <2>4 DEF Waiting
  <2>12. Working' = [Working EXCEPT ![c] = t.job] /\ Working[c] = None
    BY <1>8, <2>9, <2>10 DEF Working
  <2>13. Promise!Start(c)
    BY <1>2, <2>11, <2>12 DEF Promise!Start, Waiting, Working
  <2> QED
    BY <2>13 DEF LanesStep, Promise!Next
<1> QED
  BY <1>9, <1>10

\* A live task ends, or one that was disowned or was for no lane.
LEMMA FinishStep ==
  ASSUME DispatchInv, LiveIsServing, LiveIsServing',
         NEW l \in Lanes, NEW t \in running[l], Finish(l, t), life = "up"
  PROVE  LanesStep
<1>0. DispatchTypeOK /\ t \in Tasks /\ Chat(t) \in Chats /\ LaneOf(t) = l
  BY LaneOfTask DEF DispatchInv, DispatchTypeOK
<1>1. PICK c \in Chats : c = Chat(t)
  BY <1>0
<1>2. /\ running'[l] = running[l] \ {t} /\ \A m \in Lanes \ {l} : running'[m] = running[m]
      /\ life' = "up" /\ UNCHANGED <<queue, epoch, cancelled>>
  BY <1>0 DEF Finish, DispatchTypeOK, chats
<1>3. \A d \in Chats : ServedBy(d)' = ServedBy(d) /\ ServedBy(d) \in Lanes \ {Inline, Recovery}
  BY <1>0, <1>2, ServedByLane DEF ServedBy
<1>4. \A d \in Chats : WaitingOf(d)' = WaitingOf(d)
  BY <1>2, <1>3 DEF WaitingOf
<1>5. ASSUME NEW d \in Chats, d # c \/ l # ServedBy(c) PROVE WorkOf(d)' = WorkOf(d)
  <2>1. Serving(d)' = Serving(d)
    <3>1. ~(ServedBy(d) = l /\ Chat(t) = d)
      BY <1>1, <1>5
    <3> QED
      BY <1>0, <1>2, <1>3, <3>1 DEF Serving, DispatchTypeOK
  <2>2. LiveOf(d)' = LiveOf(d)
    BY <2>1 DEF LiveIsServing
  <2> QED
    BY <2>2 DEF WorkOf
<1>6. CASE l # ServedBy(c)
  BY <1>2, <1>4, <1>5, <1>6, StillStep
<1>7. CASE l = ServedBy(c)
  <2>1. LiveOf(c) = {t}
    <3>1. t \in Serving(c)
      BY <1>1, <1>7 DEF Serving
    <3> QED
      BY <3>1 DEF LiveIsServing
  <2>2. LiveOf(c)' = {}
    <3>1. Serving(c)' = Serving(c) \ {t}
      BY <1>0, <1>2, <1>3, <1>7 DEF Serving
    <3> QED
      BY <2>1, <3>1 DEF LiveIsServing
  <2>3. t.job # None
    BY <1>0 DEF Tasks
  <2>4. WorkOf(c) # None
    BY <2>1, <2>3 DEF WorkOf
  <2>5. WorkOf(c)' = None
    BY <2>2 DEF WorkOf
  <2>6. Working' = [Working EXCEPT ![c] = None] /\ Working[c] # None
    BY <1>5, <2>4, <2>5 DEF Working
  <2>7. Waiting' = Waiting
    BY <1>4 DEF Waiting
  <2>8. Promise!Finish(c)
    BY <1>2, <2>6, <2>7 DEF Promise!Finish, Waiting, Working
  <2> QED
    BY <2>8 DEF LanesStep, Promise!Next
<1> QED
  BY <1>6, <1>7
\* The queue of a generation is empty until the generation begins.
LEMMA NextQueueEmpty ==
  ASSUME DispatchTypeOK, NEW c \in Chats, epoch[c] < MaxResets
  PROVE  LET l == <<c, epoch[c] + 1>>
         IN  l \in OwnLanes /\ queue[l] = <<>> /\ running[l] = {}
<1>1. PICK g \in 1 .. MaxResets : g = epoch[c] + 1
  BY DEF DispatchTypeOK
<1>2. <<c, g>> \in OwnLanes /\ <<c, g>> \in Lanes
  BY DEF OwnLanes, Lanes
<1>3. ASSUME NEW t \in Tasks, LaneOf(t) = <<c, g>>, t.gen <= epoch[Chat(t)] PROVE FALSE
  <2>1. QueueOf[Chat(t)] \notin OwnLanes
    BY LaneOfTask
  <2>2. <<Chat(t), t.gen>> = <<c, g>>
    BY <1>2, <1>3, <2>1 DEF LaneOf
  <2> QED
    BY <1>1, <1>3, <2>2 DEF DispatchTypeOK
<1>4. running[<<c, g>>] = {}
  BY <1>2, <1>3 DEF DispatchTypeOK
<1>5. queue[<<c, g>>] = <<>>
  <2> DEFINE q == queue[<<c, g>>]
  <2>1. q \in Seq(Tasks) /\ \A i \in 1 .. Len(q) : LaneOf(q[i]) = <<c, g>> /\ q[i].gen <= epoch[Chat(q[i])]
    BY <1>2 DEF DispatchTypeOK
  <2> HIDE DEF q
  <2>2. \A i \in 1 .. Len(q) : q[i] \in Tasks
    BY <2>1, ElementOfSeq
  <2>3. Len(q) \in Nat /\ 1 \notin 1 .. Len(q)
    BY <1>3, <2>1, <2>2, LenProperties
  <2>4. q = <<>>
    BY <2>1, <2>3, EmptySeq
  <2> QED
    BY <2>4 DEF q
<1> QED
  BY <1>1, <1>2, <1>4, <1>5

\* A reset empties the lane of its chat and disowns who works for it.
LEMMA RenewStep ==
  ASSUME DispatchInv, LiveIsServing, LiveIsServing',
         NEW t \in running[Recovery], ResetChat(t), life = "up"
  PROVE  LanesStep
<1>0. DispatchTypeOK
  BY DEF DispatchInv
<1>1. PICK c \in Chats : c = Chat(t)
  BY <1>0, LaneOfTask DEF DispatchTypeOK, Lanes
<1>2. /\ epoch'[c] = epoch[c] + 1 /\ \A d \in Chats \ {c} : epoch'[d] = epoch[d]
      /\ epoch[c] < MaxResets /\ epoch[c] \in Nat
      /\ life' = "up" /\ UNCHANGED <<queue, running>>
  BY <1>0, <1>1 DEF ResetChat, DispatchTypeOK
<1>3. \A d \in Chats \ {c} : ServedBy(d)' = ServedBy(d)
  BY <1>2 DEF ServedBy
<1>4. ASSUME NEW d \in Chats \ {c} PROVE WaitingOf(d)' = WaitingOf(d) /\ WorkOf(d)' = WorkOf(d)
  <2>1. Serving(d)' = Serving(d)
    BY <1>2, <1>3 DEF Serving
  <2>2. LiveOf(d)' = LiveOf(d)
    BY <2>1 DEF LiveIsServing
  <2> QED
    BY <1>2, <1>3, <2>2, SameChat
<1>5. ServedBy(c)' = <<c, epoch[c] + 1>>
  BY <1>2 DEF ServedBy
<1>6. queue'[ServedBy(c)'] = <<>> /\ running'[ServedBy(c)'] = {}
  BY <1>0, <1>2, <1>5, NextQueueEmpty
<1>7. WaitingOf(c)' = <<>>
  BY <1>2, <1>6, SiftEmpty, JobsOfNone DEF WaitingOf
<1>8. WorkOf(c)' = None
  <2>1. Serving(c)' = {}
    BY <1>6 DEF Serving
  <2>2. LiveOf(c)' = {}
    BY <2>1 DEF LiveIsServing
  <2> QED
    BY <2>2 DEF WorkOf
<1>9. Waiting' = [Waiting EXCEPT ![c] = <<>>]
  BY <1>4, <1>7 DEF Waiting
<1>10. Working' = [Working EXCEPT ![c] = None]
  BY <1>4, <1>8 DEF Working
<1>11. Promise!Renew(c)
  BY <1>2, <1>9, <1>10 DEF Promise!Renew, Waiting, Working
<1> QED
  BY <1>11 DEF LanesStep, Promise!Next

\* Stop closes every lane.
LEMMA ShutStep ==
  ASSUME Cancel
  PROVE  LanesStep
<1>1. life' = "stopping"
  BY DEF Cancel
<1>2. \A c \in Chats : WaitingOf(c)' = <<>> /\ WorkOf(c)' = None
  BY <1>1 DEF WaitingOf, WorkOf, LiveOf, Live, Cancelled
<1>3. Promise!Shut
  BY <1>1, <1>2 DEF Promise!Shut
<1> QED
  BY <1>3 DEF LanesStep, Promise!Next

\* When the dispatcher is not up, every lane is closed and stays so.
LEMMA ClosedStep ==
  ASSUME life # "up", life' # "up"
  PROVE  LanesStep
<1>1. \A c \in Chats : WaitingOf(c)' = <<>> /\ WorkOf(c)' = None
  BY DEF WaitingOf, WorkOf, LiveOf, Live, Cancelled
<1> QED
  BY <1>1, ClosedChat, StillStep

LEMMA NextIsLanesStep ==
  ASSUME DispatchInv, LiveIsServing \/ life # "up", LiveIsServing' \/ life' # "up", [Next]_vars
  PROVE  LanesStep
<1>0. DispatchTypeOK
  BY DEF DispatchInv
<1>1. CASE Cancel
  BY <1>1, ShutStep
<1>2. [Next]_vars /\ ~Cancel => (life' = "up" <=> life = "up")
  BY DEF Next, Deliver, DeliverAgain, Poll, Tick, Send, Accept, Refuse, Panic, Take, Finish,
         ResetChat, Leave, Close, vars
<1>3. CASE ~Cancel /\ life # "up"
  BY <1>2, <1>3, ClosedStep
<1>4. CASE ~Cancel /\ life = "up"
  <2>1. LiveIsServing /\ LiveIsServing' /\ life' = "up"
    BY <1>2, <1>4
  <2>2. \/ UNCHANGED <<queue, running, epoch, cancelled>>
        \/ \E s \in Senders : Accept(s)
        \/ \E l \in Lanes : Take(l) \/ \E t \in running[l] : Finish(l, t)
        \/ \E t \in running[Recovery] : ResetChat(t)
    BY <1>4 DEF Next, Deliver, DeliverAgain, Poll, Tick, Send, Refuse, Panic, Leave, Close, vars,
                chats, workers
  <2> QED
    BY <1>0, <1>4, <2>1, <2>2, UnmovedStep, AcceptStep, TakeStep, FinishStep, RenewStep
<1> QED
  BY <1>1, <1>3, <1>4

LEMMA InitIsLanesInit == Init => Promise!Init
<1> SUFFICES ASSUME Init PROVE Promise!Init
  OBVIOUS
<1>1. DispatchTypeOK
  BY InitInv DEF DispatchInv
<1>2. ASSUME NEW c \in Chats PROVE WaitingOf(c) = <<>> /\ WorkOf(c) = None
  <2>1. queue[ServedBy(c)] = <<>> /\ LiveOf(c) = {}
    BY <1>1, ServedByLane DEF Init, LiveOf, InHand
  <2> QED
    BY <2>1, SiftEmpty, JobsOfNone DEF WaitingOf, WorkOf
<1> QED
  BY <1>2 DEF Promise!Init, Init

\* The queues, generations and workers of the dispatcher give every chat the
\* bounded lane of its own that ChatLanes describes: jobs run one at a time
\* and in the order they were accepted, and a reset drops what waits.
THEOREM DispatcherRefinesLanes == Spec => RefinesLanes
<1>1. DispatchInv => LiveIsServing \/ life # "up"
  BY LiveAreServed
<1>2. DispatchInv' => (LiveIsServing \/ life # "up")'
  BY <1>1, PTL
<1>3. DispatchInv /\ DispatchInv' /\ [Next]_vars => [Promise!Next]_<<Waiting, Working, life = "up">>
  BY <1>1, <1>2, NextIsLanesStep DEF LanesStep
<1> QED
  BY <1>3, InitIsLanesInit, DispatchInvariant, PTL DEF Spec, RefinesLanes, Promise!Spec, Waiting, Working
=============================================================================
