----------------------------- MODULE ClientImpl -----------------------------
(***************************************************************************)
(* The library client: the user interface thread hands operations to a     *)
(* worker thread through a VecDeque guarded by a mutex, with a condition   *)
(* variable to park the worker and an atomic flag to terminate it.         *)
(*                                                                         *)
(* The mutex is held only inside single steps (the pop; the push with its  *)
(* notify_all; the emptiness check, which cond.wait turns into sleep       *)
(* without a gap), so it needs no variable.  What is NOT atomic is kept    *)
(* apart: the load of `terminate', the pop, the execution and the check of *)
(* one turn of the loop, and the store and the notify of stop(), neither   *)
(* of which takes the mutex.                                               *)
(*                                                                         *)
(* An element of Op is one scheduled closure, so it is scheduled once.     *)
(***************************************************************************)
EXTENDS Naturals, Sequences

CONSTANTS Op,        \* the closures the user interface may schedule
          SyncOp,    \* those made by create_*_sync: the caller waits for a reply
          PanicOp    \* those whose execution may panic

ASSUME OpAssumption == SyncOp \subseteq Op /\ PanicOp \subseteq Op

VARIABLES terminate,  \* the AtomicBool
          tasks,      \* the VecDeque
          pc,         \* where the worker thread is in main()
          elem,       \* main()'s `elem': <<>> for None, <<op>> for Some(op)
          ui,         \* what the user interface thread is doing with the client
          awaited,    \* the operation whose channel the caller reads: <<>>, <<op>>
          reply,      \* that channel: "none", "sent" or "disconnected"
          scheduled,  \* history: every operation pushed, in order
          executed,   \* history: every operation completed, in order
          late        \* history: the operations popped after terminate was set

vars == <<terminate, tasks, pc, elem, ui, awaited, reply, scheduled, executed, late>>
uiVars == <<ui, awaited>>

InSeq(op, s) == \E i \in DOMAIN s : s[i] = op

Running == {"loop", "pop", "execute", "check", "waiting"}
Ended == {"stopped", "panicked"}

TypeOK ==
  /\ terminate \in BOOLEAN
  /\ tasks \in Seq(Op)
  /\ pc \in Running \cup Ended
  /\ elem \in Seq(Op) /\ Len(elem) <= 1
  /\ ui \in {"idle", "recv", "stopping", "dropped", "crashed"}
  /\ awaited \in Seq(SyncOp) /\ Len(awaited) <= 1
  /\ reply \in {"none", "sent", "disconnected"}
  /\ scheduled \in Seq(Op) /\ executed \in Seq(Op) /\ late \in Seq(Op)

Init ==
  /\ terminate = FALSE
  /\ tasks = <<>>
  /\ pc = "loop"
  /\ elem = <<>>
  /\ ui = "idle" /\ awaited = <<>> /\ reply = "none"
  /\ scheduled = <<>> /\ executed = <<>> /\ late = <<>>

-----------------------------------------------------------------------------
(* The user interface thread.                                              *)

\* A parked worker goes back to the head of its loop; otherwise a
\* notification is lost.
NotifiedPc == IF pc = "waiting" THEN "loop" ELSE pc

push_back(op) ==
  /\ ~InSeq(op, scheduled)
  /\ tasks' = Append(tasks, op)
  /\ scheduled' = Append(scheduled, op)

schedule_op(op) ==
  /\ ui = "idle" /\ op \notin SyncOp
  /\ push_back(op)
  /\ pc' = NotifiedPc
  /\ UNCHANGED <<terminate, elem, ui, awaited, reply, executed, late>>

\* create_label_sync, create_keyword_sync, create_folder_sync
create_sync(op) ==
  /\ ui = "idle" /\ op \in SyncOp
  /\ push_back(op)
  /\ pc' = NotifiedPc
  /\ ui' = "recv" /\ awaited' = <<op>> /\ reply' = "none"
  /\ UNCHANGED <<terminate, elem, executed, late>>

\* Mutant: try_recv instead of recv.
recv_try ==
  /\ ui = "recv"
  /\ ui' = "idle"
  /\ awaited' = <<>> /\ reply' = "none"
  /\ UNCHANGED <<terminate, tasks, pc, elem, scheduled, executed, late>>

\* rx.recv().unwrap(): the reply, or a panic if the sender was dropped.
recv ==
  /\ ui = "recv" /\ reply # "none"
  /\ ui' = IF reply = "sent" THEN "idle" ELSE "crashed"
  /\ awaited' = <<>> /\ reply' = "none"
  /\ UNCHANGED <<terminate, tasks, pc, elem, scheduled, executed, late>>

stop_store ==
  /\ ui = "idle"
  /\ terminate' = TRUE
  /\ ui' = "stopping"
  /\ UNCHANGED <<tasks, pc, elem, awaited, reply, scheduled, executed, late>>

stop_notify ==
  /\ ui = "stopping"
  /\ pc' = NotifiedPc
  /\ ui' = "dropped"
  /\ UNCHANGED <<terminate, tasks, elem, awaited, reply, scheduled, executed, late>>

-----------------------------------------------------------------------------
(* The worker thread: one turn of the loop of main().                      *)

load_terminate ==
  /\ pc = "loop"
  /\ pc' = IF terminate THEN "stopped" ELSE "pop"
  /\ UNCHANGED <<terminate, tasks, elem, uiVars, reply, scheduled, executed, late>>

pop_front ==
  /\ pc = "pop"
  /\ IF tasks = <<>>
     THEN pc' = "check" /\ UNCHANGED <<tasks, elem, late>>
     ELSE /\ pc' = "execute"
          /\ elem' = <<Head(tasks)>>
          /\ tasks' = Tail(tasks)
          /\ late' = IF terminate THEN Append(late, Head(tasks)) ELSE late
  /\ UNCHANGED <<terminate, uiVars, reply, scheduled, executed>>

\* Mutant: the reply is never sent.
execute_no_reply ==
  /\ pc = "execute"
  /\ executed' = executed \o elem
  /\ elem' = <<>>
  /\ pc' = "check"
  /\ UNCHANGED <<terminate, tasks, uiVars, reply, scheduled, late>>

execute ==
  /\ pc = "execute"
  /\ executed' = executed \o elem
  /\ reply' = IF elem = awaited THEN "sent" ELSE reply
  /\ elem' = <<>>
  /\ pc' = "check"
  /\ UNCHANGED <<terminate, tasks, uiVars, scheduled, late>>

\* Mutant: the panic is caught and the operation forgotten.
execute_panic_caught ==
  /\ pc = "execute"
  /\ \E op \in PanicOp : elem = <<op>>
  /\ reply' = IF elem = awaited THEN "disconnected" ELSE reply
  /\ elem' = <<>>
  /\ pc' = "check"
  /\ UNCHANGED <<terminate, tasks, uiVars, scheduled, executed, late>>

\* The closure panics: the thread unwinds and drops it, and with it the
\* sending half of its channel.
execute_panic ==
  /\ pc = "execute"
  /\ \E op \in PanicOp : elem = <<op>>
  /\ reply' = IF elem = awaited THEN "disconnected" ELSE reply
  /\ pc' = "panicked"
  /\ UNCHANGED <<terminate, tasks, elem, uiVars, scheduled, executed, late>>

\* Mutant: the worker waits without looking at the queue again.
check_wait_blind ==
  /\ pc = "check"
  /\ pc' = "waiting"
  /\ UNCHANGED <<terminate, tasks, elem, uiVars, reply, scheduled, executed, late>>

check_wait ==
  /\ pc = "check"
  /\ pc' = IF tasks = <<>> THEN "waiting" ELSE "loop"
  /\ UNCHANGED <<terminate, tasks, elem, uiVars, reply, scheduled, executed, late>>

\* std::sync::Condvar allows wait() to return without a notification.
spurious_wakeup ==
  /\ pc = "waiting"
  /\ pc' = "loop"
  /\ UNCHANGED <<terminate, tasks, elem, uiVars, reply, scheduled, executed, late>>

Worker == load_terminate \/ pop_front \/ execute \/ execute_panic \/ check_wait

Client == recv \/ stop_store \/ stop_notify \/ \E op \in Op : schedule_op(op) \/ create_sync(op)

Next == Worker \/ Client \/ spurious_wakeup

\* The threads run: the worker whenever it is not parked, the caller of a
\* sync operation once its reply is there, and stop() once it has begun.
\* Nobody has to schedule anything, to stop, or to be woken for no reason.
Fairness == WF_vars(Worker) /\ WF_vars(recv) /\ WF_vars(stop_notify)

SafeSpec == Init /\ [][Next]_vars
Spec == SafeSpec /\ Fairness
-----------------------------------------------------------------------------
(* Properties.                                                             *)

\* Whatever the interleaving, an accepted operation is completed, in the
\* worker's hands or queued, once, and they are completed in the order of
\* schedule_op: the deletes, moves and queries of the user interface rely
\* on it.  (A panicking operation stays in `elem'.)
ExecutedInOrder == scheduled = executed \o elem \o tasks

\* The worker never sleeps on a non-empty queue: the check and the wait
\* are one critical section and every push notifies.
NoMissedWakeup == pc = "waiting" => tasks = <<>>

\* stop() is a flag read once per turn: the operations still queued are
\* dropped, except one if the worker had passed the test of its loop.
AtMostOneLate == Len(late) <= 1

\* When a synchronous creation returns to the user interface, everything
\* scheduled before it is completed too: EditLabels and the import dialog
\* use the id at once in further operations.
SyncReturnDrains ==
  [][ui = "recv" /\ ui' = "idle" => tasks' = <<>> /\ executed' = scheduled']_vars

\* create_*_sync comes back, or the worker has panicked.  (If an earlier
\* operation panicked, the user interface is blocked for ever: the sender
\* lives in the queue.)
SyncEventuallyReturns == ui = "recv" ~> ui # "recv" \/ pc = "panicked"

\* After stop() the worker ends, or is parked with nothing to do.
StopSettles == ui = "dropped" ~> pc \in Ended \/ (pc = "waiting" /\ tasks = <<>>)

\* The abstract executor.
Mode == IF pc = "panicked" THEN "failed"
        ELSE IF ~terminate THEN "open"
        ELSE IF pc = "pop" THEN "closing"
        ELSE "closed"

Executor == INSTANCE SerialExecutor
              WITH pending <- tasks, current <- elem, done <- executed, mode <- Mode

\* The client implements the executor, its fairness included.
ImplementsExecutor == Executor!Spec
=============================================================================
