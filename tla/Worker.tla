------------------------------- MODULE Worker -------------------------------
(***************************************************************************)
(* The worker thread of the C++ framework and the notification center that *)
(* its tasks post to.  Worker::main waits for tasks on a condition and     *)
(* runs them; each posts a notification from the thread, and the main loop *)
(* takes one out of the queue each time the dispatcher says so.            *)
(*                                                                         *)
(* A worker may be told to forget its tasks, or be destroyed.  Nothing     *)
(* makes sure that the thread then ends: main() sets m_terminated to false *)
(* when it begins and waits without a look at it, so a worker destroyed    *)
(* before its thread has begun, or while a task runs, is joined for ever.  *)
(***************************************************************************)
EXTENDS Naturals, Sequences

CONSTANT MaxTask        \* bound on the tasks

ASSUME WorkerAssumption == MaxTask \in Nat

Free == "free"

VARIABLES thread_at,    \* where the thread is in Worker::main
          m_q_mutex,    \* who holds it: Free, "thread" or "owner"
          m_tasks,
          op,           \* the task that the thread runs, or 0
          m_terminated,
          owner,        \* "alive", "clearing", "joining", "joined"
          scheduled,    \* history: how many tasks were scheduled
          forgotten,    \* history: those that were cleared
          m_notificationQueue,
          emitted,      \* the calls of the dispatcher on their way
          dispatched    \* history: what the subscribers were given

worker == <<thread_at, m_q_mutex, m_tasks, op, m_terminated, owner, scheduled, forgotten,
            m_notificationQueue, emitted, dispatched>>
center == <<m_notificationQueue, emitted, dispatched>>

WorkerInit ==
  /\ thread_at = "start" /\ m_q_mutex = Free /\ m_tasks = <<>> /\ op = 0 /\ m_terminated = TRUE
  /\ owner = "alive" /\ scheduled = 0 /\ forgotten = {}
  /\ m_notificationQueue = <<>> /\ emitted = 0 /\ dispatched = <<>>
-----------------------------------------------------------------------------
(* The owner.                                                              *)

\* MtQueue.
enqueue(queue, task) == Append(queue, task)
is_empty(queue) == queue = <<>>

\* notify_all.
wake == thread_at' = IF thread_at = "waiting" THEN "woken" ELSE thread_at

schedule ==
  /\ owner = "alive" /\ m_q_mutex = Free /\ scheduled < MaxTask
  /\ scheduled' = scheduled + 1
  /\ m_tasks' = enqueue(m_tasks, scheduled')
  /\ wake
  /\ UNCHANGED <<m_q_mutex, op, m_terminated, owner, forgotten, center>>

forget ==
  /\ forgotten' = forgotten \cup {m_tasks[i] : i \in DOMAIN m_tasks}
  /\ m_tasks' = <<>>

clear ==
  /\ owner = "alive" /\ m_q_mutex = Free /\ m_tasks # <<>>
  /\ forget
  /\ UNCHANGED <<thread_at, m_q_mutex, op, m_terminated, owner, scheduled, center>>

\* ~Worker clears the queue without the mutex.
destroy ==
  /\ owner = "alive"
  /\ forget
  /\ owner' = "clearing"
  /\ UNCHANGED <<thread_at, m_q_mutex, op, m_terminated, scheduled, center>>

terminate ==
  /\ owner = "clearing" /\ m_q_mutex = Free
  /\ m_terminated' = TRUE
  /\ wake
  /\ owner' = "joining"
  /\ UNCHANGED <<m_q_mutex, m_tasks, op, scheduled, forgotten, center>>

join ==
  /\ owner = "joining" /\ thread_at = "end"
  /\ owner' = "joined"
  /\ UNCHANGED <<thread_at, m_q_mutex, m_tasks, op, m_terminated, scheduled, forgotten, center>>
-----------------------------------------------------------------------------
(* The thread.                                                             *)

main_begins ==
  /\ thread_at = "start"
  /\ m_terminated' = FALSE
  /\ thread_at' = "loop"
  /\ UNCHANGED <<m_q_mutex, m_tasks, op, owner, scheduled, forgotten, center>>

\* Locks, and looks whether there is a task.
look ==
  /\ thread_at = "loop" /\ m_q_mutex = Free
  /\ IF is_empty(m_tasks) THEN thread_at' = "check" /\ UNCHANGED m_q_mutex
     ELSE thread_at' = "pop" /\ m_q_mutex' = "thread"
  /\ UNCHANGED <<m_tasks, op, m_terminated, owner, scheduled, forgotten, center>>

\* The front of an empty queue is undefined: the destructor may clear the
\* queue in between.
pop ==
  /\ thread_at = "pop"
  /\ IF m_tasks = <<>> THEN thread_at' = "undefined" /\ UNCHANGED <<m_tasks, op>>
     ELSE op' = Head(m_tasks) /\ m_tasks' = Tail(m_tasks) /\ thread_at' = "execute"
  /\ m_q_mutex' = Free
  /\ UNCHANGED <<m_terminated, owner, scheduled, forgotten, center>>

\* The task posts what it did: NotificationCenter::post, in two steps.
post_add ==
  /\ thread_at = "execute"
  /\ m_notificationQueue' = enqueue(m_notificationQueue, op)
  /\ thread_at' = "emit"
  /\ UNCHANGED <<m_q_mutex, m_tasks, op, m_terminated, owner, scheduled, forgotten, emitted, dispatched>>

post_emit ==
  /\ thread_at = "emit"
  /\ emitted' = emitted + 1
  /\ op' = 0
  /\ thread_at' = "check"
  /\ UNCHANGED <<m_q_mutex, m_tasks, m_terminated, owner, scheduled, forgotten, m_notificationQueue,
                 dispatched>>

\* Mutant: after a task the thread waits, without a look at the queue.
check_blind ==
  /\ thread_at = "check" /\ m_q_mutex = Free
  /\ thread_at' = "waiting"
  /\ UNCHANGED <<m_q_mutex, m_tasks, op, m_terminated, owner, scheduled, forgotten, center>>

\* Locks, and waits when there is no task.
check ==
  /\ thread_at = "check" /\ m_q_mutex = Free
  /\ thread_at' = IF is_empty(m_tasks) THEN "waiting" ELSE "woken"
  /\ UNCHANGED <<m_q_mutex, m_tasks, op, m_terminated, owner, scheduled, forgotten, center>>

\* A condition may wake for nothing.
spurious ==
  /\ thread_at = "waiting"
  /\ thread_at' = "woken"
  /\ UNCHANGED <<m_q_mutex, m_tasks, op, m_terminated, owner, scheduled, forgotten, center>>

again ==
  /\ thread_at = "woken"
  /\ thread_at' = IF m_terminated THEN "end" ELSE "loop"
  /\ UNCHANGED <<m_q_mutex, m_tasks, op, m_terminated, owner, scheduled, forgotten, center>>
-----------------------------------------------------------------------------
\* The main loop: NotificationCenter::_dispatch.
dispatch ==
  /\ emitted > 0
  /\ m_notificationQueue # <<>>
  /\ emitted' = emitted - 1
  /\ dispatched' = Append(dispatched, Head(m_notificationQueue))
  /\ m_notificationQueue' = Tail(m_notificationQueue)
  /\ UNCHANGED <<thread_at, m_q_mutex, m_tasks, op, m_terminated, owner, scheduled, forgotten>>

WorkerNext ==
  \/ schedule \/ clear \/ destroy \/ terminate \/ join
  \/ main_begins \/ look \/ pop \/ post_add \/ post_emit \/ check \/ spurious \/ again
  \/ dispatch
-----------------------------------------------------------------------------
\* A thread that waits has nothing to do: no task that was scheduled while
\* the thread was on its way to wait is left until the next one comes.
NoTaskForgotten == thread_at = "waiting" => m_tasks = <<>>

\* What the subscribers were given, what is posted, what runs and what waits.
Running == IF thread_at = "execute" THEN <<op>> ELSE <<>>
AllTasks == dispatched \o m_notificationQueue \o Running \o m_tasks

\* Each time the dispatcher is called there is a notification to take out,
\* and the subscribers are given what the tasks posted, one for each task
\* that was not cleared, in the order they were scheduled.
PostedIsDispatched ==
  /\ emitted > 0 => m_notificationQueue # <<>>
  /\ \A i, j \in DOMAIN AllTasks : i < j => AllTasks[i] < AllTasks[j]
  /\ {AllTasks[i] : i \in DOMAIN AllTasks} = (1..scheduled) \ forgotten

\* While it is alive, a worker does not take a task from an empty queue;
\* and once it is joined the thread has ended, with nothing left to run.
WorkerEndsClean ==
  /\ owner = "alive" => thread_at # "undefined"
  /\ owner = "joined" => m_tasks = <<>> /\ op = 0 /\ thread_at = "end"
=============================================================================
