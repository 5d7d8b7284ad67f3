-------------------------- MODULE ClientImplProofs --------------------------
(***************************************************************************)
(* What holds of the library client for any set of operations.             *)
(***************************************************************************)
EXTENDS ClientImpl, TLAPS

\* The worker holds an operation exactly while it executes it (or has
\* panicked in it).
ElemInv == pc \in {"execute", "panicked"} <=> elem # <<>>

\* The flag is raised once; a worker about to pop when it was raised has
\* popped nothing since.
LateInv ==
  /\ ui \in {"idle", "recv"} => ~terminate
  /\ ~terminate => late = <<>>
  /\ pc = "pop" => late = <<>>
  /\ AtMostOneLate

\* No operation is scheduled twice.
NoDup(s) == \A i, j \in 1..Len(s) : s[i] = s[j] => i = j
NoDupInv == NoDup(scheduled)

\* A reply in the channel means that nothing is left to run.
ReplyInv ==
  /\ ui = "recv" <=> awaited # <<>>
  /\ awaited # <<>> => /\ scheduled # <<>>
                       /\ scheduled[Len(scheduled)] = awaited[1]
  /\ reply # "none" => awaited # <<>>
  /\ reply = "sent" => tasks = <<>> /\ elem = <<>> /\ executed = scheduled

IInv ==
  /\ TypeOK
  /\ ExecutedInOrder
  /\ NoMissedWakeup
  /\ ElemInv
  /\ LateInv
  /\ NoDupInv
  /\ ReplyInv
-----------------------------------------------------------------------------
(* The three queues end to end.                                            *)

\* Moving the head of the queue into the empty hands of the worker.
LEMMA PopConcat ==
  \A a, t \in Seq(Op) : t # <<>> => a \o <<>> \o t = a \o <<Head(t)>> \o Tail(t)
  OBVIOUS

LEMMA OneElement ==
  \A e \in Seq(Op) : e # <<>> /\ Len(e) <= 1 => e[1] \in Op /\ e = <<e[1]>>
  OBVIOUS

\* The operation the worker holds, when it is also the last one scheduled
\* and none is scheduled twice, has nothing behind it.
LEMMA LastIsAlone ==
  \A s, a, t \in Seq(Op) : \A x \in Op :
    /\ s = a \o <<x>> \o t
    /\ s[Len(s)] = x
    /\ NoDup(s)
    => t = <<>> /\ s = a \o <<x>>
<1> SUFFICES ASSUME NEW s \in Seq(Op), NEW a \in Seq(Op), NEW t \in Seq(Op), NEW x \in Op,
                    s = a \o <<x>> \o t,
                    s[Len(s)] = x,
                    NoDup(s)
             PROVE  t = <<>> /\ s = a \o <<x>>
  OBVIOUS
<1>1. Len(a) + 1 = Len(s)
  BY DEF NoDup
<1>2. QED
  BY <1>1
-----------------------------------------------------------------------------
(* The inductive invariant.                                                *)

LEMMA InitIInv == Init => IInv
<1> SUFFICES ASSUME Init PROVE IInv
  OBVIOUS
<1>1. TypeOK
  <2>1. tasks \in Seq(Op) /\ scheduled \in Seq(Op) /\ executed \in Seq(Op) /\ late \in Seq(Op)
    BY DEF Init
  <2>2. elem \in Seq(Op) /\ Len(elem) <= 1
    BY DEF Init
  <2>3. awaited \in Seq(SyncOp) /\ Len(awaited) <= 1
    BY DEF Init
  <2>4. /\ terminate \in BOOLEAN /\ pc \in Running
        /\ ui \in {"idle", "recv", "stopping", "dropped", "crashed"}
        /\ reply \in {"none", "sent", "disconnected"}
    BY DEF Init, Running
  <2>5. QED
    BY <2>1, <2>2, <2>3, <2>4 DEF TypeOK
<1>2. ExecutedInOrder
  BY DEF Init, ExecutedInOrder
<1>3. NoMissedWakeup /\ ElemInv /\ NoDupInv
  BY DEF Init, NoMissedWakeup, ElemInv, NoDupInv, NoDup
<1>4. LateInv /\ ReplyInv
  BY DEF Init, LateInv, AtMostOneLate, ReplyInv
<1>5. QED
  BY <1>1, <1>2, <1>3, <1>4 DEF IInv

LEMMA TypeStep == IInv /\ [Next]_vars => TypeOK'
<1> SUFFICES ASSUME IInv, [Next]_vars PROVE TypeOK'
  OBVIOUS
<1> USE OpAssumption DEF IInv, TypeOK, Running, Ended, uiVars
<1>1. ASSUME NEW op \in Op, schedule_op(op) PROVE TypeOK'
  BY <1>1 DEF schedule_op, push_back, NotifiedPc
<1>2. ASSUME NEW op \in Op, create_sync(op) PROVE TypeOK'
  BY <1>2 DEF create_sync, push_back, NotifiedPc
<1>3. CASE recv
  BY <1>3 DEF recv
<1>4. CASE stop_store
  BY <1>4 DEF stop_store
<1>5. CASE stop_notify
  BY <1>5 DEF stop_notify, NotifiedPc
<1>6. CASE load_terminate
  BY <1>6 DEF load_terminate
<1>7. CASE pop_front
  <2>1. CASE tasks = <<>>
    BY <1>7, <2>1 DEF pop_front
  <2>2. CASE tasks # <<>>
    <3>1. /\ Head(tasks) \in Op /\ Tail(tasks) \in Seq(Op)
          /\ <<Head(tasks)>> \in Seq(Op) /\ Len(<<Head(tasks)>>) = 1
      BY <2>2
    <3>2. /\ pc' = "execute" /\ elem' = <<Head(tasks)>> /\ tasks' = Tail(tasks)
          /\ UNCHANGED <<terminate, ui, awaited, reply, scheduled, executed>>
      BY <1>7, <2>2 DEF pop_front
    <3>3. late' = IF terminate THEN Append(late, Head(tasks)) ELSE late
      BY <1>7, <2>2 DEF pop_front
    <3>4. late' \in Seq(Op)
      BY <3>1, <3>3
    <3>5. QED
      BY <3>1, <3>2, <3>4
  <2>3. QED
    BY <2>1, <2>2
<1>8. CASE execute
  BY <1>8 DEF execute
<1>9. CASE execute_panic
  BY <1>9 DEF execute_panic
<1>10. CASE check_wait
  BY <1>10 DEF check_wait
<1>11. CASE spurious_wakeup
  BY <1>11 DEF spurious_wakeup
<1>12. CASE UNCHANGED vars
  BY <1>12 DEF vars
<1>13. QED
  BY <1>1, <1>2, <1>3, <1>4, <1>5, <1>6, <1>7, <1>8, <1>9, <1>10, <1>11, <1>12
     DEF Next, Worker, Client

\* Only a push and the two moves of an operation touch the order.
LEMMA OrderStep == IInv /\ [Next]_vars => ExecutedInOrder'
<1> SUFFICES ASSUME IInv, [Next]_vars PROVE ExecutedInOrder'
  OBVIOUS
<1> USE DEF IInv, TypeOK, ExecutedInOrder, uiVars
<1>1. ASSUME NEW op \in Op, schedule_op(op) PROVE ExecutedInOrder'
  <2>1. Append(executed \o elem \o tasks, op) = executed \o elem \o Append(tasks, op)
    OBVIOUS
  <2>2. QED
    BY <1>1, <2>1 DEF schedule_op, push_back
<1>2. ASSUME NEW op \in Op, create_sync(op) PROVE ExecutedInOrder'
  <2>1. Append(executed \o elem \o tasks, op) = executed \o elem \o Append(tasks, op)
    OBVIOUS
  <2>2. QED
    BY <1>2, <2>1 DEF create_sync, push_back
<1>3. CASE recv
  BY <1>3 DEF recv
<1>4. CASE stop_store
  BY <1>4 DEF stop_store
<1>5. CASE stop_notify
  BY <1>5 DEF stop_notify, NotifiedPc
<1>6. CASE load_terminate
  BY <1>6 DEF load_terminate
<1>7. CASE pop_front
  <2>1. CASE tasks = <<>>
    BY <1>7, <2>1 DEF pop_front, ElemInv
  <2>2. CASE tasks # <<>>
    <3>1. /\ Head(tasks) \in Op /\ Tail(tasks) \in Seq(Op)
          /\ <<Head(tasks)>> \in Seq(Op) /\ Len(<<Head(tasks)>>) = 1
      BY <2>2
    <3>2. /\ pc' = "execute" /\ elem' = <<Head(tasks)>> /\ tasks' = Tail(tasks)
          /\ UNCHANGED <<terminate, ui, awaited, reply, scheduled, executed>>
      BY <1>7, <2>2 DEF pop_front
    <3>3. late' = IF terminate THEN Append(late, Head(tasks)) ELSE late
      BY <1>7, <2>2 DEF pop_front
    <3>4. elem = <<>>
      BY <1>7 DEF pop_front, ElemInv
    <3>5. executed \in Seq(Op) /\ tasks \in Seq(Op)
      OBVIOUS
    <3>6. executed \o <<>> \o tasks = executed \o <<Head(tasks)>> \o Tail(tasks)
      BY <2>2, <3>5, PopConcat, Zenon
    <3>7. scheduled = executed \o <<>> \o tasks
      BY <3>4
    <3>8. scheduled' = executed' \o elem' \o tasks'
      BY <3>2, <3>6, <3>7, Zenon
    <3>9. QED
      BY <3>8
  <2>3. QED
    BY <2>1, <2>2
<1>8. CASE execute
  BY <1>8 DEF execute
<1>9. CASE execute_panic
  BY <1>9 DEF execute_panic
<1>10. CASE check_wait
  BY <1>10 DEF check_wait
<1>11. CASE spurious_wakeup
  BY <1>11 DEF spurious_wakeup
<1>12. CASE UNCHANGED vars
  BY <1>12 DEF vars
<1>13. QED
  BY <1>1, <1>2, <1>3, <1>4, <1>5, <1>6, <1>7, <1>8, <1>9, <1>10, <1>11, <1>12
     DEF Next, Worker, Client

\* A push wakes a parked worker; parking requires an empty queue.
LEMMA WakeupStep == IInv /\ [Next]_vars => NoMissedWakeup' /\ ElemInv'
<1> SUFFICES ASSUME IInv, [Next]_vars PROVE NoMissedWakeup' /\ ElemInv'
  OBVIOUS
<1> USE DEF IInv, TypeOK, NoMissedWakeup, ElemInv, uiVars
<1>1. ASSUME NEW op \in Op, schedule_op(op) PROVE NoMissedWakeup' /\ ElemInv'
  BY <1>1 DEF schedule_op, push_back, NotifiedPc
<1>2. ASSUME NEW op \in Op, create_sync(op) PROVE NoMissedWakeup' /\ ElemInv'
  BY <1>2 DEF create_sync, push_back, NotifiedPc
<1>3. CASE recv
  BY <1>3 DEF recv
<1>4. CASE stop_store
  BY <1>4 DEF stop_store
<1>5. CASE stop_notify
  BY <1>5 DEF stop_notify, NotifiedPc
<1>6. CASE load_terminate
  BY <1>6 DEF load_terminate
<1>7. CASE pop_front
  <2>1. CASE tasks = <<>>
    BY <1>7, <2>1 DEF pop_front
  <2>2. CASE tasks # <<>>
    <3>1. /\ Head(tasks) \in Op /\ Tail(tasks) \in Seq(Op)
          /\ <<Head(tasks)>> \in Seq(Op) /\ Len(<<Head(tasks)>>) = 1
      BY <2>2
    <3>2. /\ pc' = "execute" /\ elem' = <<Head(tasks)>> /\ tasks' = Tail(tasks)
          /\ UNCHANGED <<terminate, ui, awaited, reply, scheduled, executed>>
      BY <1>7, <2>2 DEF pop_front
    <3>3. late' = IF terminate THEN Append(late, Head(tasks)) ELSE late
      BY <1>7, <2>2 DEF pop_front
    <3>4. elem' # <<>>
      BY <3>1, <3>2
    <3>5. QED
      BY <3>2, <3>4
  <2>3. QED
    BY <2>1, <2>2
<1>8. CASE execute
  BY <1>8 DEF execute
<1>9. CASE execute_panic
  BY <1>9 DEF execute_panic
<1>10. CASE check_wait
  BY <1>10 DEF check_wait
<1>11. CASE spurious_wakeup
  BY <1>11 DEF spurious_wakeup
<1>12. CASE UNCHANGED vars
  BY <1>12 DEF vars
<1>13. QED
  BY <1>1, <1>2, <1>3, <1>4, <1>5, <1>6, <1>7, <1>8, <1>9, <1>10, <1>11, <1>12
     DEF Next, Worker, Client

\* The flag is only ever raised, and is read between two pops.
LEMMA LateStep == IInv /\ [Next]_vars => LateInv'
<1> SUFFICES ASSUME IInv, [Next]_vars PROVE LateInv'
  OBVIOUS
<1> USE DEF IInv, TypeOK, LateInv, AtMostOneLate, uiVars
<1>1. ASSUME NEW op \in Op, schedule_op(op) PROVE LateInv'
  BY <1>1 DEF schedule_op, push_back, NotifiedPc
<1>2. ASSUME NEW op \in Op, create_sync(op) PROVE LateInv'
  BY <1>2 DEF create_sync, push_back, NotifiedPc
<1>3. CASE recv
  BY <1>3 DEF recv
<1>4. CASE stop_store
  BY <1>4 DEF stop_store
<1>5. CASE stop_notify
  BY <1>5 DEF stop_notify, NotifiedPc
<1>6. CASE load_terminate
  BY <1>6 DEF load_terminate
<1>7. CASE pop_front
  <2>1. CASE tasks = <<>>
    BY <1>7, <2>1 DEF pop_front
  <2>2. CASE tasks # <<>>
    <3>1. Head(tasks) \in Op /\ late = <<>>
      BY <1>7, <2>2 DEF pop_front
    <3>2. /\ pc' = "execute" /\ UNCHANGED <<terminate, ui>>
          /\ late' = IF terminate THEN <<Head(tasks)>> ELSE <<>>
      <4>1. Append(<<>>, Head(tasks)) = <<Head(tasks)>>
        BY <3>1
      <4>2. QED
        BY <1>7, <2>2, <3>1, <4>1 DEF pop_front
    <3>3. Len(<<Head(tasks)>>) = 1 /\ Len(<<>>) = 0
      OBVIOUS
    <3>4. QED
      BY <3>2, <3>3
  <2>3. QED
    BY <2>1, <2>2
<1>8. CASE execute
  BY <1>8 DEF execute
<1>9. CASE execute_panic
  BY <1>9 DEF execute_panic
<1>10. CASE check_wait
  BY <1>10 DEF check_wait
<1>11. CASE spurious_wakeup
  BY <1>11 DEF spurious_wakeup
<1>12. CASE UNCHANGED vars
  BY <1>12 DEF vars
<1>13. QED
  BY <1>1, <1>2, <1>3, <1>4, <1>5, <1>6, <1>7, <1>8, <1>9, <1>10, <1>11, <1>12
     DEF Next, Worker, Client

LEMMA NoDupStep == IInv /\ [Next]_vars => NoDupInv'
<1> SUFFICES ASSUME IInv, [Next]_vars PROVE NoDupInv'
  OBVIOUS
<1> USE DEF IInv, TypeOK, NoDupInv, NoDup, uiVars
<1>1. ASSUME NEW op \in Op, schedule_op(op) PROVE NoDupInv'
  BY <1>1 DEF schedule_op, push_back, InSeq
<1>2. ASSUME NEW op \in Op, create_sync(op) PROVE NoDupInv'
  BY <1>2 DEF create_sync, push_back, InSeq
<1>3. CASE recv
  BY <1>3 DEF recv
<1>4. CASE stop_store
  BY <1>4 DEF stop_store
<1>5. CASE stop_notify
  BY <1>5 DEF stop_notify, NotifiedPc
<1>6. CASE load_terminate
  BY <1>6 DEF load_terminate
<1>7. CASE pop_front
  <2>1. CASE tasks = <<>>
    BY <1>7, <2>1 DEF pop_front
  <2>2. CASE tasks # <<>>
    BY <1>7, <2>2 DEF pop_front
  <2>3. QED
    BY <2>1, <2>2
<1>8. CASE execute
  BY <1>8 DEF execute
<1>9. CASE execute_panic
  BY <1>9 DEF execute_panic
<1>10. CASE check_wait
  BY <1>10 DEF check_wait
<1>11. CASE spurious_wakeup
  BY <1>11 DEF spurious_wakeup
<1>12. CASE UNCHANGED vars
  BY <1>12 DEF vars
<1>13. QED
  BY <1>1, <1>2, <1>3, <1>4, <1>5, <1>6, <1>7, <1>8, <1>9, <1>10, <1>11, <1>12
     DEF Next, Worker, Client

LEMMA ReplyStep == IInv /\ [Next]_vars => ReplyInv'
<1> SUFFICES ASSUME IInv, [Next]_vars PROVE ReplyInv'
  OBVIOUS
<1> USE DEF IInv, TypeOK, ReplyInv, uiVars
<1>1. ASSUME NEW op \in Op, schedule_op(op) PROVE ReplyInv'
  BY <1>1 DEF schedule_op, push_back, NotifiedPc
<1>2. ASSUME NEW op \in Op, create_sync(op) PROVE ReplyInv'
  BY <1>2 DEF create_sync, push_back, NotifiedPc
<1>3. CASE recv
  BY <1>3 DEF recv
<1>4. CASE stop_store
  BY <1>4 DEF stop_store
<1>5. CASE stop_notify
  BY <1>5 DEF stop_notify, NotifiedPc
<1>6. CASE load_terminate
  BY <1>6 DEF load_terminate
<1>7. CASE pop_front
  <2>1. CASE tasks = <<>>
    BY <1>7, <2>1 DEF pop_front
  <2>2. CASE tasks # <<>>
    BY <1>7, <2>2 DEF pop_front
  <2>3. QED
    BY <2>1, <2>2
<1>8. CASE execute
  <2>1. /\ elem # <<>> /\ elem' = <<>> /\ executed' = executed \o elem
        /\ reply' = IF elem = awaited THEN "sent" ELSE reply
        /\ UNCHANGED <<tasks, ui, awaited, scheduled>>
    BY <1>8 DEF execute, ElemInv
  <2>2. reply # "sent"
    BY <2>1
  <2>3. CASE elem # awaited
    BY <2>1, <2>2, <2>3
  <2>4. CASE elem = awaited
    <3>1. /\ elem[1] \in Op /\ elem = <<elem[1]>>
          /\ scheduled[Len(scheduled)] = elem[1]
      <4>1. elem \in Seq(Op) /\ Len(elem) <= 1
        OBVIOUS
      <4>2. elem[1] \in Op /\ elem = <<elem[1]>>
        BY <2>1, <4>1, OneElement, Zenon
      <4>3. scheduled[Len(scheduled)] = awaited[1]
        BY <2>1, <2>4
      <4>4. QED
        BY <2>4, <4>2, <4>3
    <3>2. scheduled = executed \o <<elem[1]>> \o tasks
      BY <3>1 DEF ExecutedInOrder
    <3>3. tasks = <<>> /\ scheduled = executed \o <<elem[1]>>
      <4>1. executed \in Seq(Op) /\ tasks \in Seq(Op) /\ scheduled \in Seq(Op)
        OBVIOUS
      <4>2. NoDup(scheduled)
        BY DEF NoDupInv
      <4>3. elem[1] \in Op /\ scheduled[Len(scheduled)] = elem[1]
        BY <3>1
      <4>4. QED
        <5>1. \A x \in Op :
                /\ scheduled = executed \o <<x>> \o tasks
                /\ scheduled[Len(scheduled)] = x
                /\ NoDup(scheduled)
                => tasks = <<>> /\ scheduled = executed \o <<x>>
          BY <4>1, LastIsAlone, Zenon
        <5>2. QED
          BY <3>2, <4>2, <4>3, <5>1, Zenon
    <3>4. tasks' = <<>> /\ executed' = scheduled'
      BY <2>1, <3>1, <3>3
    <3>5. QED
      BY <2>1, <2>4, <3>4
  <2>5. QED
    BY <2>3, <2>4
<1>9. CASE execute_panic
  <2>1. /\ elem # <<>>
        /\ reply' = IF elem = awaited THEN "disconnected" ELSE reply
        /\ UNCHANGED <<tasks, elem, ui, awaited, scheduled, executed>>
    BY <1>9 DEF execute_panic, ElemInv
  <2>2. reply # "sent"
    BY <2>1
  <2>3. QED
    BY <2>1, <2>2
<1>10. CASE check_wait
  BY <1>10 DEF check_wait
<1>11. CASE spurious_wakeup
  BY <1>11 DEF spurious_wakeup
<1>12. CASE UNCHANGED vars
  BY <1>12 DEF vars
<1>13. QED
  BY <1>1, <1>2, <1>3, <1>4, <1>5, <1>6, <1>7, <1>8, <1>9, <1>10, <1>11, <1>12
     DEF Next, Worker, Client
-----------------------------------------------------------------------------
(* The theorems.                                                           *)

LEMMA IInvStep == IInv /\ [Next]_vars => IInv'
  BY TypeStep, OrderStep, WakeupStep, LateStep, NoDupStep, ReplyStep DEF IInv

LEMMA IInvHolds == Spec => []IInv
<1>1. Spec => Init /\ [][Next]_vars
  BY PTL DEF Spec, SafeSpec
<1>2. QED
  BY <1>1, InitIInv, IInvStep, PTL

\* Every variable keeps its type, for any set of operations.
THEOREM TypeCorrect == Spec => []TypeOK
<1>1. IInv => TypeOK
  BY DEF IInv
<1>2. QED
  BY <1>1, IInvHolds, PTL

\* No operation is lost, repeated or overtaken, whatever the interleaving.
THEOREM OrderCorrect == Spec => []ExecutedInOrder
<1>1. IInv => ExecutedInOrder
  BY DEF IInv
<1>2. QED
  BY <1>1, IInvHolds, PTL

\* The worker is never parked on a non-empty queue.
THEOREM WakeupCorrect == Spec => []NoMissedWakeup
<1>1. IInv => NoMissedWakeup
  BY DEF IInv
<1>2. QED
  BY <1>1, IInvHolds, PTL

\* At most one operation starts after stop() has raised the flag.
THEOREM LateCorrect == Spec => []AtMostOneLate
<1>1. IInv => AtMostOneLate
  BY DEF IInv, LateInv
<1>2. QED
  BY <1>1, IInvHolds, PTL

\* A synchronous creation returns to an empty queue: all that was scheduled
\* has been executed.
THEOREM SyncCorrect == Spec => SyncReturnDrains
<1>1. ASSUME IInv, Next, ui = "recv", ui' = "idle"
      PROVE  tasks' = <<>> /\ executed' = scheduled'
  <2>1. recv
    BY <1>1 DEF Next, Worker, Client, schedule_op, create_sync, recv, stop_store,
                stop_notify, load_terminate, pop_front, execute, execute_panic,
                check_wait, spurious_wakeup, uiVars
  <2>2. reply = "sent" /\ UNCHANGED <<tasks, scheduled, executed>>
    BY <1>1, <2>1 DEF recv
  <2>3. QED
    BY <1>1, <2>2 DEF IInv, ReplyInv
<1>2. IInv /\ [Next]_vars
        => [ui = "recv" /\ ui' = "idle" => tasks' = <<>> /\ executed' = scheduled']_vars
  BY <1>1
<1>3. Spec => Init /\ [][Next]_vars
  BY PTL DEF Spec, SafeSpec
<1>4. QED
  BY <1>2, <1>3, IInvHolds, PTL DEF SyncReturnDrains
-----------------------------------------------------------------------------
(* The refinement.                                                         *)

LEMMA InitRefines == Init => Executor!Init
  BY DEF Init, Executor!Init, Mode

LEMMA StepRefines == IInv /\ [Next]_vars => [Executor!Next]_(Executor!vars)
<1> SUFFICES ASSUME IInv, [Next]_vars, ~UNCHANGED Executor!vars PROVE Executor!Next
  OBVIOUS
<1> USE DEF IInv, TypeOK, Running, Ended, ElemInv, uiVars, Mode, Executor!vars
<1>1. ASSUME NEW op \in Op, schedule_op(op) \/ create_sync(op) PROVE Executor!Next
  <2>1. /\ ~terminate \/ pc = "panicked"
        /\ tasks' = Append(tasks, op)
        /\ Mode' = Mode
        /\ UNCHANGED <<elem, executed>>
    BY <1>1 DEF schedule_op, create_sync, push_back, NotifiedPc, LateInv
  <2>2. Executor!Submit(op)
    BY <2>1 DEF Executor!Submit
  <2>3. QED
    BY <2>2 DEF Executor!Next
<1>2. CASE recv \/ stop_notify \/ load_terminate \/ check_wait \/ spurious_wakeup
  BY <1>2 DEF recv, stop_notify, load_terminate, check_wait, spurious_wakeup, NotifiedPc
<1>3. CASE stop_store
  BY <1>3 DEF stop_store, Executor!Close, Executor!Next
<1>4. CASE pop_front
  <2>1. CASE tasks = <<>>
    BY <1>4, <2>1 DEF pop_front, Executor!Close, Executor!Next
  <2>2. CASE tasks # <<>>
    BY <1>4, <2>2 DEF pop_front, Executor!Start, Executor!Next
  <2>3. QED
    BY <2>1, <2>2
<1>5. CASE execute
  BY <1>5 DEF execute, Executor!Finish, Executor!Next
<1>6. CASE execute_panic
  BY <1>6 DEF execute_panic, Executor!Fail, Executor!Next
<1>7. CASE UNCHANGED vars
  BY <1>7 DEF vars
<1>8. QED
  BY <1>1, <1>2, <1>3, <1>4, <1>5, <1>6, <1>7 DEF Next, Worker, Client

\* The client, mutex, condition variable, flag and all, is a serial executor
\* (the safety part; that it is a fair one is checked by TLC).
THEOREM Refinement == Spec => Executor!SafeSpec
<1>1. Spec => Init /\ [][Next]_vars
  BY PTL DEF Spec, SafeSpec
<1>2. QED
  BY <1>1, InitRefines, StepRefines, IInvHolds, PTL DEF Executor!SafeSpec
=============================================================================
