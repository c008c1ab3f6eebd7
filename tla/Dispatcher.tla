---------------------------- MODULE Dispatcher ------------------------------
(***************************************************************************)
(* From an update of Telegram to the worker that handles it: the webhook   *)
(* handler or the polling loop, the deduper, the queues of the Dispatcher, *)
(* the generations of a chat that /reset advances, the scheduler of        *)
(* skipped turns, and Stop.                                                *)
(*                                                                         *)
(* Chats share a few bounded queues, with one worker each.  A chat that    *)
(* was reset has a queue and a worker of its own from then on, one pair    *)
(* per generation.  Inline queries and resets have queues apart.  Every    *)
(* task carries the generation it was admitted under; the context of a     *)
(* generation is cancelled by the next one, all of them by Stop.           *)
(***************************************************************************)
EXTENDS Naturals, Sequences, FiniteSets, Sifting

CONSTANTS
  Chats, None,
  Messages, Queries, Resets,  \* updates: of a chat, inline, /reset
  Ticks,                      \* turns the scheduler finds expired, once each
  ChatOf,                     \* chat of each job
  Handlers, Poller, Scheduler,  \* who enqueues: for webhooks, for polling, expired turns
  Partitions, QueueOf,        \* shared queues, and the one of each chat
  Inline, Recovery,           \* queues apart
  Staff,                      \* workers of these two
  Capacity,                   \* of every queue
  MaxResets                   \* bound on the generations of a chat

Updates == Messages \cup Queries \cup Resets
Jobs == Updates \cup Ticks
Senders == Handlers \cup {Poller, Scheduler}
OwnLanes == Chats \X (1 .. MaxResets)
Lanes == Partitions \cup {Inline, Recovery} \cup OwnLanes

ASSUME DispatcherAssumption ==
  /\ ChatOf \in [Jobs -> Chats]
  /\ QueueOf \in [Chats -> Partitions]
  /\ Staff \in [{Inline, Recovery} -> Nat]
  /\ Capacity \in Nat /\ MaxResets \in Nat
  /\ Inline # Recovery
  /\ Inline \notin Partitions \cup OwnLanes /\ Recovery \notin Partitions \cup OwnLanes
  /\ Partitions \cap OwnLanes = {}
  /\ Messages \cap Queries = {} /\ Messages \cap Resets = {} /\ Queries \cap Resets = {}
  /\ Ticks \cap Updates = {}
  /\ Scheduler \notin Handlers /\ Poller \notin Handlers \cup {Scheduler}
  /\ None \notin Jobs

VARIABLES
  transport,  \* how updates arrive, as configured
  backlog,    \* updates Telegram holds until they are answered with 200
  pending,    \* deduper: reserved
  seen,       \* deduper: committed
  sender,     \* the task each sender is about to put in a queue
  ticks,      \* turns the scheduler has yet to find
  epoch,      \* chatStates: generation of each chat
  cancelled,  \* generations whose context was cancelled by a reset
  queue,
  running,    \* tasks in the hands of the workers of each queue
  gone,       \* queues of a generation whose worker has returned
  renewed,    \* resets that have advanced the generation of their chat
  life,       \* of the process; "stopping" when Stop has cancelled
  closed,     \* queues Stop has closed
  starts      \* how often each job was started

intake == <<transport, backlog, pending, seen, sender, ticks>>
chats == <<epoch, cancelled>>
workers == <<running, gone, renewed, starts>>
vars == <<intake, chats, queue, workers, life, closed>>

Tasks == [job : Jobs, gen : 0 .. MaxResets]
NoTask == [job |-> None, gen |-> 0]

Init ==
  /\ transport \in {"webhook", "polling"}
  /\ backlog = Updates
  /\ pending = {} /\ seen = {}
  /\ sender = [s \in Senders |-> NoTask]
  /\ ticks = Ticks
  /\ epoch = [c \in Chats |-> 0]
  /\ cancelled = {}
  /\ queue = [l \in Lanes |-> <<>>]
  /\ running = [l \in Lanes |-> {}]
  /\ gone = {}
  /\ renewed = {}
  /\ life = "up"
  /\ closed = {}
  /\ starts = [j \in Jobs |-> 0]

-----------------------------------------------------------------------------
(* Tasks *)

Chat(t) == ChatOf[t.job]

\* Mutant of LaneOf: a reset waits with the other work of its chat.
NoRecoveryLane(t) ==
  IF t.job \in Queries THEN Inline
  ELSE IF t.gen = 0 THEN QueueOf[Chat(t)] ELSE <<Chat(t), t.gen>>

\* Mutant of LaneOf: the queue of a generation is not used.
AlwaysShared(t) ==
  IF t.job \in Queries THEN Inline
  ELSE IF t.job \in Resets THEN Recovery ELSE QueueOf[Chat(t)]

LaneOf(t) ==
  IF t.job \in Queries THEN Inline
  ELSE IF t.job \in Resets THEN Recovery
  ELSE IF t.gen = 0 THEN QueueOf[Chat(t)] ELSE <<Chat(t), t.gen>>

Current(t) == epoch[Chat(t)] = t.gen

Cancelled(t) == life # "up" \/ <<Chat(t), t.gen>> \in cancelled

-----------------------------------------------------------------------------
(* Intake *)

\* Mutant of Admit: the task counts as of the generation to come.
AdmitAhead(s, j) == sender' = [sender EXCEPT ![s] = [job |-> j, gen |-> epoch[ChatOf[j]] + 1]]

\* The check of the dispatcher's context, and the generation read under
\* chatMu.  The send comes later.
Admit(s, j) == sender' = [sender EXCEPT ![s] = [job |-> j, gen |-> epoch[ChatOf[j]]]]

\* Mutant of Fresh: reserve looks at committed updates only.
NotCommitted(u) == u \notin seen

Fresh(u) == u \notin pending \cup seen

\* Telegram delivers what it has no answer for, more than once if it likes.
Deliver(h, u) ==
  /\ transport = "webhook"
  /\ life = "up"
  /\ sender[h] = NoTask
  /\ u \in backlog
  /\ Fresh(u)
  /\ pending' = pending \cup {u}
  /\ Admit(h, u)
  /\ UNCHANGED <<transport, backlog, seen, ticks, chats, queue, workers, life, closed>>

\* A duplicate is answered 200, whatever becomes of the first delivery.
DeliverAgain(h, u) ==
  /\ transport = "webhook"
  /\ life # "crashed"
  /\ sender[h] = NoTask
  /\ u \in backlog
  /\ ~Fresh(u)
  /\ backlog' = backlog \ {u}
  /\ UNCHANGED <<transport, pending, seen, sender, ticks, chats, queue, workers, life, closed>>

\* The polling loop submits what it was sent, once, and never looks at the
\* answer: Telegram takes the next request for more as its receipt.
Poll(u) ==
  /\ transport = "polling"
  /\ life = "up"
  /\ sender[Poller] = NoTask
  /\ u \in backlog
  /\ Fresh(u)
  /\ backlog' = backlog \ {u}
  /\ pending' = pending \cup {u}
  /\ Admit(Poller, u)
  /\ UNCHANGED <<transport, seen, ticks, chats, queue, workers, life, closed>>

\* An expired turn goes to the queue of its chat.
Tick(j) ==
  /\ life = "up"
  /\ sender[Scheduler] = NoTask
  /\ j \in ticks
  /\ ticks' = ticks \ {j}
  /\ Admit(Scheduler, j)
  /\ UNCHANGED <<transport, backlog, pending, seen, chats, queue, workers, life, closed>>

Done(s) == sender' = [sender EXCEPT ![s] = NoTask]

\* commit.
Commit(j) ==
  /\ pending' = pending \ {j}
  /\ seen' = seen \cup ({j} \cap Updates)

\* The task fits.  The update is committed and answered 200, but the answer
\* may be lost.
Accept(s) ==
  LET t == sender[s]
      l == LaneOf(t)
  IN  /\ life # "crashed"
      /\ t # NoTask
      /\ l \notin closed
      /\ Len(queue[l]) < Capacity
      /\ queue' = [queue EXCEPT ![l] = Append(@, t)]
      /\ Done(s)
      /\ Commit(t.job)
      /\ backlog' \in {backlog, backlog \ {t.job}}
      /\ UNCHANGED <<transport, ticks, chats, workers, life, closed>>

\* No room, or the context is cancelled: released, and answered 503.  What
\* was polled is lost.
Refuse(s) ==
  LET t == sender[s]
  IN  /\ life # "crashed"
      /\ t # NoTask
      /\ life = "stopping" \/ Len(queue[LaneOf(t)]) = Capacity
      /\ Done(s)
      /\ pending' = pending \ {t.job}
      /\ UNCHANGED <<transport, backlog, seen, ticks, chats, queue, workers, life, closed>>

\* Sending on a closed channel panics.  The HTTP server recovers its handler,
\* with the update still reserved; nobody recovers the scheduler.
Panic(s) ==
  /\ life = "stopping"
  /\ sender[s] # NoTask
  /\ LaneOf(sender[s]) \in closed
  /\ Done(s)
  /\ life' = IF s = Scheduler THEN "crashed" ELSE life
  /\ UNCHANGED <<transport, backlog, pending, seen, ticks, chats, queue, workers, closed>>

Send(s) == Accept(s) \/ Refuse(s) \/ Panic(s)

-----------------------------------------------------------------------------
(* Workers *)

\* Mutant of Room: a pool of workers serves the queue of a chat.
Pool(l) == TRUE

Room(l) == Cardinality(running[l]) < IF l \in {Inline, Recovery} THEN Staff[l] ELSE 1

\* Chat workers discard the tasks of older generations.  The worker of a
\* generation whose context is cancelled may still take a task, or leave.
Runs(l, t) == l \in {Inline, Recovery} \/ Current(t)

Take(l) ==
  LET t == Head(queue[l])
  IN  /\ life # "crashed"
      /\ queue[l] # <<>>
      /\ Room(l) /\ l \notin gone
      /\ queue' = [queue EXCEPT ![l] = Tail(@)]
      /\ \/ /\ Runs(l, t)
            /\ running' = [running EXCEPT ![l] = @ \cup {t}]
            /\ starts' = [starts EXCEPT ![t.job] = @ + 1]
         \/ /\ ~Runs(l, t)
            /\ UNCHANGED <<running, starts>>
      /\ UNCHANGED <<intake, chats, gone, renewed, life, closed>>

\* It returned, ran into its timeout or panicked and was recovered.
Finish(l, t) ==
  /\ life # "crashed"
  /\ t \in running[l]
  /\ running' = [running EXCEPT ![l] = @ \ {t}]
  /\ UNCHANGED <<intake, chats, queue, gone, renewed, starts, life, closed>>

\* Mutant of Disowned: the old context is not cancelled.
NotDisowned(c) == {}

Disowned(c) == {<<c, epoch[c]>>}

\* A /reset that was authorized, while it runs.
ResetChat(t) ==
  LET c == Chat(t)
  IN  /\ life # "crashed"
      /\ t \in running[Recovery]
      /\ t.job \in Resets \ renewed
      /\ epoch[c] < MaxResets
      /\ epoch' = [epoch EXCEPT ![c] = @ + 1]
      /\ cancelled' = cancelled \cup Disowned(c)
      /\ renewed' = renewed \cup {t.job}
      /\ UNCHANGED <<intake, queue, running, gone, starts, life, closed>>

\* The worker of a generation returns when its context is cancelled.
Leave(l) ==
  /\ life # "crashed"
  /\ l \in OwnLanes \ gone
  /\ l[2] <= epoch[l[1]]
  /\ running[l] = {}
  /\ life = "stopping" \/ l \in cancelled
  /\ gone' = gone \cup {l}
  /\ UNCHANGED <<intake, chats, queue, running, renewed, starts, life, closed>>

-----------------------------------------------------------------------------
(* Stop *)

\* The polling loop calls Stop itself; webhook handlers may be under way.
Cancel ==
  /\ life = "up"
  /\ sender[Poller] = NoTask
  /\ life' = "stopping"
  /\ UNCHANGED <<intake, chats, queue, workers, closed>>

\* The queues of the chats, then the inline one, then the recovery one.
Close(l) ==
  /\ life = "stopping"
  /\ l \notin closed \cup OwnLanes
  /\ l = Inline => Partitions \subseteq closed
  /\ l = Recovery => Inline \in closed
  /\ closed' = closed \cup {l}
  /\ UNCHANGED <<intake, chats, queue, workers, life>>

Next ==
  \/ \E h \in Handlers, u \in Updates : Deliver(h, u) \/ DeliverAgain(h, u)
  \/ \E u \in Updates : Poll(u)
  \/ \E j \in Ticks : Tick(j)
  \/ \E s \in Senders : Send(s)
  \/ \E l \in Lanes :
       Take(l) \/ Leave(l) \/ Close(l) \/ \E t \in running[l] : Finish(l, t)
  \/ \E t \in running[Recovery] : ResetChat(t)
  \/ Cancel

\* A sender does not stay between its check and its send, and workers take
\* what waits for them.  Resets and the tasks of a renewed chat end within
\* their timeouts.  The task a shared worker is busy with need not: a reset
\* is there for the case that it does not.
Fairness ==
  /\ \A s \in Senders : WF_vars(Send(s))
  /\ \A l \in Lanes : WF_vars(Take(l))
  /\ \A l \in Lanes \ Partitions : WF_vars(\E t \in running[l] : Finish(l, t))

Spec == Init /\ [][Next]_vars
LiveSpec == Spec /\ Fairness

-----------------------------------------------------------------------------
(* Properties *)

\* Queued and running tasks are in the queue they belong to; every task was
\* admitted under a generation its chat has had.
DispatchTypeOK ==
  /\ transport \in {"webhook", "polling"}
  /\ backlog \subseteq Updates /\ pending \subseteq Updates /\ seen \subseteq Updates
  /\ sender \in [Senders -> Tasks \cup {NoTask}]
  /\ \A s \in Senders : sender[s] # NoTask => sender[s].gen <= epoch[Chat(sender[s])]
  /\ ticks \subseteq Ticks
  /\ epoch \in [Chats -> 0 .. MaxResets]
  /\ cancelled \subseteq Chats \X (0 .. MaxResets)
  /\ queue \in [Lanes -> Seq(Tasks)]
  /\ running \in [Lanes -> SUBSET Tasks]
  /\ gone \subseteq OwnLanes
  /\ renewed \subseteq Resets
  /\ life \in {"up", "stopping", "crashed"}
  /\ closed \subseteq Lanes \ OwnLanes
  /\ starts \in [Jobs -> Nat]
  /\ \A l \in Lanes :
       /\ Len(queue[l]) <= Capacity
       /\ \A t \in running[l] : LaneOf(t) = l /\ t.gen <= epoch[Chat(t)]
       /\ \A i \in 1 .. Len(queue[l]) :
            LaneOf(queue[l][i]) = l /\ queue[l][i].gen <= epoch[Chat(queue[l][i])]

\* However often Telegram delivers an update, and whatever the answers that
\* were lost and the deliveries that were refused, it is handled once.
HandledOnce == \A j \in Jobs : starts[j] <= 1

\* Of the tasks of a chat that are running, one at most has a context that
\* is not cancelled, and that one is of the current generation: a task that
\* outlives a reset cannot act on the game of the next generation.
Live(t) == t.job \in Messages \cup Ticks /\ ~Cancelled(t)

InHand == UNION {running[l] : l \in Lanes}

OneAtATime ==
  \A t \in InHand : Live(t) =>
    /\ Current(t)
    /\ \A v \in InHand : Live(v) /\ Chat(v) = Chat(t) => v = t

\* The dispatcher keeps each chat's promise: bounded, in order, one at a
\* time, and nothing of an older generation is started.
ServedBy(c) == IF epoch[c] = 0 THEN QueueOf[c] ELSE <<c, epoch[c]>>

OwnTasks(c) == {t \in Tasks : Chat(t) = c}

JobsIn(tasks) == [i \in 1 .. Len(tasks) |-> tasks[i].job]

WaitingOf(c) ==
  IF life = "up" THEN JobsIn(Sift(queue[ServedBy(c)], OwnTasks(c))) ELSE <<>>

LiveOf(c) == {t \in InHand : Live(t) /\ Current(t) /\ Chat(t) = c}

WorkOf(c) == IF LiveOf(c) = {} THEN None ELSE (CHOOSE t \in LiveOf(c) : TRUE).job

Promise == INSTANCE ChatLanes WITH
  lane <- [c \in Chats |-> WaitingOf(c)], work <- [c \in Chats |-> WorkOf(c)], open <- life = "up"

RefinesLanes == Promise!Spec

Waits(j) ==
  \E l \in Lanes : \E i \in 1 .. Len(queue[l]) : queue[l][i].job = j /\ Current(queue[l][i])

\* A reset that was accepted runs, even if no chat worker ever ends what it
\* is doing.
ResetIsReached ==
  \A r \in Resets : r \in seen ~> (starts[r] > 0 \/ life = "crashed")

\* After a reset the chat is served again although the worker it shared with
\* others stays busy: what is accepted under a later generation runs, unless
\* another reset or the end of the process comes first.
ResetFreesChat ==
  \A j \in Messages \cup Ticks :
    (Waits(j) /\ epoch[ChatOf[j]] > 0) ~> (~Waits(j) \/ life # "up")

\* docs/v2-telegram.md:321-322: work admitted into the queues is drained.
\* When every worker has ended, no task of a current generation is left.
AllEnded ==
  /\ life = "stopping" /\ closed = Lanes \ OwnLanes
  /\ \A l \in Lanes :
       /\ running[l] = {}
       /\ l \in closed => queue[l] = <<>>
       /\ l \in OwnLanes /\ l[2] <= epoch[l[1]] => l \in gone

AdmittedIsDrained ==
  AllEnded => \A c \in Chats : epoch[c] > 0 => queue[<<c, epoch[c]>>] = <<>>
=============================================================================
