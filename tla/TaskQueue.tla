------------------------------ MODULE TaskQueue ------------------------------
(***************************************************************************)
(* The broker's task queue (task_queue.hpp): a boost multi-index container *)
(* of tasks that is unique by metatile, ordered by priority for front()    *)
(* and ordered by timestamp for resubmit_older_than().  The methods are    *)
(* operators from queues to queues, so that every broker can hold one.     *)
(*                                                                         *)
(* A tile position is one coordinate x; y, z and style are aligned and     *)
(* compared in the same way and add nothing.  protoFmt is a bit mask, here *)
(* a set of formats.  A task's timestamp is kept as its age, saturated at  *)
(* ZombieTime: resubmit_older_than only asks whether the age has reached   *)
(* the timeout.                                                            *)
(***************************************************************************)
EXTENDS Integers, Sequences, FiniteSets

CONSTANTS
  METATILE,    \* tiles along one side of a metatile
  ZombieTime,  \* the timeout given to resubmit_older_than, in clock ticks
  Formats,     \* the bits of protoFmt
  Requests     \* tile_protocol messages the handlers may send, each once

\* protoCmd of a request, and protoCmd of what comes back from a worker.
RequestCmd == {"cmdRender", "cmdRenderPrio", "cmdRenderBulk", "cmdDirty"}
ResultCmd == {"cmdDone", "cmdIgnore", "cmdNotDone", "cmdRender"}

ASSUME MetatileAssumption == METATILE \in Nat \ {0}
\* zmq.zombie_time is 300 by default; zero would make every running task a
\* zombie at once.
ASSUME ZombieTimeAssumption == ZombieTime \in Nat \ {0}
ASSUME RequestsAssumption ==
  \A r \in Requests : /\ r.x \in Nat
                      /\ r.status \in RequestCmd
                      /\ r.format \in SUBSET Formats
-----------------------------------------------------------------------------
\* x &= ~(METATILE-1)
MetaOf(x) == x - (x % METATILE)

Metatiles == {MetaOf(r.x) : r \in Requests}

Task ==
  [status      : RequestCmd,
   format      : SUBSET Formats,
   priority    : Nat,
   age         : 0 .. ZombieTime,
   subscribers : SUBSET Requests,
   processed   : BOOLEAN]

(***************************************************************************)
(* tasks is the hashed_unique index.  arrivals gives the order of tasks of *)
(* equal priority in the ordered_non_unique priority index: a task enters  *)
(* its priority class at the upper bound, so it goes to the back when it   *)
(* is inserted and when a modify raises its priority.  stamps is the order *)
(* of the timestamp index, oldest first.                                   *)
(***************************************************************************)
EmptyQueue == [tasks |-> << >>, arrivals |-> << >>, stamps |-> << >>]

Position(s, m) == CHOOSE i \in 1 .. Len(s) : s[i] = m

Without(s, m) ==
  [i \in 1 .. (Len(s) - 1) |-> IF i < Position(s, m) THEN s[i] ELSE s[i + 1]]

ToBack(s, m) == Append(Without(s, m), m)

\* Mutant: the latest request sets the priority.
AddSubscriberLastWins(t, r, p) ==
  [t EXCEPT !.priority = p, !.subscribers = @ \cup {r}, !.format = @ \cup r.format]

\* The functor of push: raise the priority, add the subscriber, union the formats.
AddSubscriber(t, r, p) ==
  [t EXCEPT !.priority = IF p > @ THEN p ELSE @,
            !.subscribers = @ \cup {r},
            !.format = @ \cup r.format]

\* The task constructor, with the status that push forces on every task.
NewTask(r, p) ==
  [status |-> "cmdRender", format |-> r.format, priority |-> p, age |-> 0,
   subscribers |-> {}, processed |-> FALSE]

\* Mutant: the position is not aligned to the metatile.
PushUnaligned(q, r, p) ==
  [tasks    |-> [k \in DOMAIN q.tasks \cup {r.x} |->
                   IF k = r.x THEN AddSubscriber(NewTask(r, p), r, p) ELSE q.tasks[k]],
   arrivals |-> Append(q.arrivals, r.x),
   stamps   |-> Append(q.stamps, r.x)]

push(q, r, p) ==
  LET m      == MetaOf(r.x)
      known  == m \in DOMAIN q.tasks
      merged == IF known THEN q.tasks[m] ELSE NewTask(r, p)
  IN  [tasks    |-> [k \in DOMAIN q.tasks \cup {m} |->
                       IF k = m THEN AddSubscriber(merged, r, p) ELSE q.tasks[k]],
       arrivals |-> IF ~known THEN Append(q.arrivals, m)
                    ELSE IF p > q.tasks[m].priority THEN ToBack(q.arrivals, m)
                    ELSE q.arrivals,
       stamps   |-> IF known THEN q.stamps ELSE Append(q.stamps, m)]

\* Mutant: the task stays available.
SetProcessedForgotten(q, m) == q

\* processed_fun applied to the task of metatile m.
set_processed(q, m) == [q EXCEPT !.tasks[m].processed = TRUE]

\* Mutant: the finished task stays in the queue.
EraseForgotten(q, m) == q

erase(q, m) ==
  [tasks    |-> [k \in DOMAIN q.tasks \ {m} |-> q.tasks[k]],
   arrivals |-> Without(q.arrivals, m),
   stamps   |-> Without(q.stamps, m)]

Available(q) == {m \in DOMAIN q.tasks : ~q.tasks[m].processed}

count_unprocessed(q) == Cardinality(Available(q))

\* The tasks of the highest priority among the unprocessed ones.
TopClass(q) ==
  {m \in Available(q) :
     \A k \in Available(q) : q.tasks[k].priority <= q.tasks[m].priority}

\* front(): defined only when Available(q) is not empty.
front(q) ==
  CHOOSE m \in TopClass(q) :
     \A k \in TopClass(q) : Position(q.arrivals, m) <= Position(q.arrivals, k)

\* The condition of the loop of resubmit_older_than.
Zombies(q) ==
  {m \in DOMAIN q.tasks : /\ q.tasks[m].status # "cmdRenderBulk"
                          /\ q.tasks[m].age >= ZombieTime
                          /\ q.tasks[m].processed}

OldestZombie(q) ==
  CHOOSE m \in Zombies(q) :
     \A k \in Zombies(q) : Position(q.stamps, m) <= Position(q.stamps, k)

\* Mutant: no task is given back.
ResubmitNothing(q) == q

(***************************************************************************)
(* The loop walks the timestamp index and modifies the task it stands on.  *)
(* The new timestamp is now, so the container moves the task to the back   *)
(* of the index, unless the task after it already has the timestamp now.   *)
(* Either way no task that the loop still reaches is old enough: one call  *)
(* resubmits one zombie, the oldest.                                       *)
(***************************************************************************)
resubmit_older_than(q) ==
  IF Zombies(q) = {} THEN q ELSE
  LET m == OldestZombie(q)
      i == Position(q.stamps, m)
      inPlace == i = Len(q.stamps) \/ q.tasks[q.stamps[i + 1]].age = 0
  IN  [tasks    |-> [q.tasks EXCEPT ![m].processed = FALSE, ![m].age = 0],
       arrivals |-> q.arrivals,
       stamps   |-> IF inPlace THEN q.stamps ELSE ToBack(q.stamps, m)]

\* One tick of the clock behind std::time, as every task sees it.
Aged(q) ==
  [q EXCEPT !.tasks = [m \in DOMAIN q.tasks |->
     [q.tasks[m] EXCEPT !.age = IF @ < ZombieTime THEN @ + 1 ELSE @]]]
=============================================================================
