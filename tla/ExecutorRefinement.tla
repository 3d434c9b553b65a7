-------------------------- MODULE ExecutorRefinement --------------------------
(* Executor implements TaskQueue. *)
EXTENDS Executor, SequencesExt

Task(e) == [by |-> e.by, n |-> e.n, kind |-> e.kind]
TaskId(t) == <<t.by, t.n>>
IsIdle(t) == t.kind = "idle"
IsCritical(t) == t.kind \in Critical

TasksOf(q) == [i \in 1..Len(q) |-> Task(q[i])]

\* PostIdleEvent puts an idle event in the ordinary list only while that is
\* empty: it is first there, or it has gone.
Ordinary(q) == IF q # <<>> /\ IsIdle(Head(q)) THEN Tail(q) ELSE q

Idle == {e \in ToSet(m_pendingEvents) \cup ToSet(m_idleEvents) : IsIdle(e)}
Fated(how) == {id \in Posters \X (1..MaxEvents) : fate[id[1]][id[2]] = how}

\* Ordinary events run in the order they are posted in; an idle event is
\* lazy, on whichever list it waits.
Q == INSTANCE TaskQueue WITH
       Tasks   <- [by : Posters, n : 1..MaxEvents, kind : AllKinds],
       Id      <- TaskId,
       IsLazy  <- IsIdle,
       MustRun <- IsCritical,
       Nothing <- NoEvent,
       queue   <- TasksOf(Ordinary(m_pendingEvents)),
       lazy    <- {Task(e) : e \in Idle},
       current <- IF cur = NoEvent THEN NoEvent ELSE Task(cur),
       done    <- Fated("done"),
       refused <- Fated("refused"),
       closing <- m_Quitting

\* No event is lost, run twice, run beside another or before an earlier one,
\* and none is refused before the shutdown, nor any critical one once queued.
TaskRefinement == Q!Spec

=============================================================================
