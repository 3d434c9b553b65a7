----------------------------- MODULE TaskQueue -----------------------------
(***************************************************************************)
(* What the executor promises: the tasks it accepts run one at a time, each *)
(* once and in the order it accepted them, but for the lazy ones, which run *)
(* whenever nothing else does.  None is lost.  Once the queue is closing a  *)
(* task may be refused instead, except one that must run and was accepted.  *)
(***************************************************************************)
EXTENDS Naturals, Sequences

CONSTANTS
  Tasks,          \* the tasks there may be
  Id(_),          \* what tells one task from another
  IsLazy(_), MustRun(_),
  Nothing         \* no task

VARIABLES queue, lazy, current, done, refused, closing
queueVars == <<queue, lazy, current, done, refused, closing>>

Known(t) == \/ Id(t) \in done \cup refused
            \/ current # Nothing /\ Id(t) = Id(current)
            \/ \E u \in lazy : Id(t) = Id(u)
            \/ \E i \in 1..Len(queue) : Id(t) = Id(queue[i])

Init == /\ queue = <<>> /\ lazy = {} /\ current = Nothing
        /\ done = {} /\ refused = {} /\ closing = FALSE

Accept(t) ==
  /\ ~Known(t)
  /\ IF IsLazy(t) THEN lazy' = lazy \cup {t} /\ UNCHANGED queue
                  ELSE queue' = Append(queue, t) /\ UNCHANGED lazy
  /\ UNCHANGED <<current, done, refused, closing>>

Refuse(t) ==
  /\ ~Known(t) /\ closing
  /\ refused' = refused \cup {Id(t)}
  /\ UNCHANGED <<queue, lazy, current, done, closing>>

\* t leaves the queue, from its front, or the lazy ones.
Leaves(t) ==
  \/ queue # <<>> /\ t = Head(queue) /\ queue' = Tail(queue) /\ UNCHANGED lazy
  \/ t \in lazy /\ lazy' = lazy \ {t} /\ UNCHANGED queue

Start(t) ==
  /\ current = Nothing
  /\ Leaves(t) /\ current' = t
  /\ UNCHANGED <<done, refused, closing>>

Skip(t) ==
  /\ closing /\ ~MustRun(t)
  /\ Leaves(t) /\ refused' = refused \cup {Id(t)}
  /\ UNCHANGED <<current, done, closing>>

Finish ==
  /\ current # Nothing
  /\ done' = done \cup {Id(current)} /\ current' = Nothing
  /\ UNCHANGED <<queue, lazy, refused, closing>>

Close == closing' = TRUE /\ UNCHANGED <<queue, lazy, current, done, refused>>

Next == \/ Finish \/ Close
        \/ \E t \in Tasks : Accept(t) \/ Refuse(t) \/ Start(t) \/ Skip(t)

Spec == Init /\ [][Next]_queueVars
=============================================================================
