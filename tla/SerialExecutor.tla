--------------------------- MODULE SerialExecutor ---------------------------
(***************************************************************************)
(* What the library client promises to the user interface, without its     *)
(* thread, its mutex or its condition variable: the operations it is given *)
(* run one at a time in the order they were given, each at most once, and  *)
(* closing the client lets at most one more operation start.  An operation *)
(* may fail for good, after which nothing runs any more.                   *)
(***************************************************************************)
EXTENDS Sequences, Naturals

CONSTANT Op                \* the operations a client may be asked to run

VARIABLES pending,         \* accepted, not started, oldest first
          current,         \* the operation being run: <<>> or <<op>>
          done,            \* completed, oldest first
          mode             \* what the executor may still do

vars == <<pending, current, done, mode>>

InSeq(op, s) == \E i \in DOMAIN s : s[i] = op

Init ==
  /\ pending = <<>> /\ current = <<>> /\ done = <<>>
  /\ mode = "open"

Submit(op) ==
  /\ mode \in {"open", "failed"}        \* a failed executor still accepts
  /\ pending' = Append(pending, op)
  /\ UNCHANGED <<current, done, mode>>

\* A closing executor has already decided to take one more operation.
Start ==
  /\ mode \in {"open", "closing"}
  /\ current = <<>> /\ pending # <<>>
  /\ current' = <<Head(pending)>>
  /\ pending' = Tail(pending)
  /\ mode' = IF mode = "open" THEN "open" ELSE "closed"
  /\ UNCHANGED done

Finish ==
  /\ current # <<>> /\ mode # "failed"
  /\ done' = done \o current
  /\ current' = <<>>
  /\ UNCHANGED <<pending, mode>>

Fail ==
  /\ current # <<>> /\ mode # "failed"
  /\ mode' = "failed"
  /\ UNCHANGED <<pending, current, done>>

Close ==
  \/ /\ mode = "open"
     /\ mode' \in {"closing", "closed"}
     /\ UNCHANGED <<pending, current, done>>
  \/ /\ mode = "closing" /\ pending = <<>>
     /\ mode' = "closed"
     /\ UNCHANGED <<pending, current, done>>

Next == \/ \E op \in Op : Submit(op)
        \/ Start \/ Finish \/ Fail \/ Close

\* An open executor is never idle for ever with work to do, and what it has
\* started it ends, in success or in failure.
Fairness == WF_vars(mode = "open" /\ Start) /\ WF_vars(Finish \/ Fail)

SafeSpec == Init /\ [][Next]_vars
Spec == SafeSpec /\ Fairness
=============================================================================
