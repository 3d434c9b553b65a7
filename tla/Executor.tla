------------------------------ MODULE Executor ------------------------------
(***************************************************************************)
(* The executor thread (pcsx2/gui/ExecutorThread.cpp), which runs the      *)
(* events other threads post to it, one after the other, and the scopes    *)
(* (gui/AppCoreThread.cpp) in which a thread keeps the core stopped by     *)
(* holding the executor in an event of its own.                            *)
(*                                                                         *)
(* m_mtx_pending guards both lists: each of its critical sections is one   *)
(* step.  m_Quitting is read and written without it.                       *)
(***************************************************************************)
EXTENDS Naturals, Sequences

CONSTANTS
  Posters,    \* the threads that post events
  Quitters,   \* those that may shut the executor down
  Kinds,      \* the kinds of event each of them posts
  MaxEvents   \* bound: events posted by each thread

\* async: an event nobody waits for, as SysExecEvent_ToggleSuspend
\* task:  one that must not be skipped, as SysExecEvent_DownloadState
\* idle:  one for PostIdleEvent
\* rpc:   Rpc_TryInvoke, whose caller waits and which must not be skipped
\* scope: SysExecEvent_CoreThreadClose and SysExecEvent_CoreThreadPause
AllKinds == {"async", "task", "idle", "rpc", "scope"}

ASSUME ExecutorAssumption ==
  /\ Kinds \in [Posters -> SUBSET AllKinds]
  /\ Quitters \subseteq Posters
  /\ MaxEvents \in Nat \ {0}

VARIABLES
  m_Quitting, m_wakeup, m_pendingEvents, m_idleEvents,
  xpc,              \* where the executor is
  list,             \* the list ProcessEvents is working on
  cur,              \* the event it executes, with its m_sync
  m_alreadyStopped, \* of the scope object on the executor's stack
  resumed,          \* what the owner of that scope answered
  running,          \* the core thread runs
  pc, event,        \* where each poster is, and the event it posts
  inScope,          \* the scope of each poster: its event, or NoEvent
  m_sync, m_sync_resume, m_mtx_resume,    \* the objects of its scope or call
  posted, fate      \* the events each has posted, and what became of them

queueVars  == <<m_Quitting, m_wakeup, m_pendingEvents, m_idleEvents>>
execVars   == <<xpc, list, cur, m_alreadyStopped, resumed>>
posterVars == <<pc, event, inScope, posted>>
syncVars   == <<m_sync, m_sync_resume, m_mtx_resume>>
vars == <<queueVars, execVars, running, posterVars, syncVars, fate>>

Critical == {"task", "rpc"}      \* IsCriticalEvent
Waited   == {"rpc", "scope"}     \* the poster waits for the result

Event == [by : Posters, n : 1..MaxEvents, kind : AllKinds, sync : BOOLEAN]
NoEvent == [kind |-> "none"]

XPlaces == {"idle", "sleep", "pending", "test", "run", "enter", "lock", "post",
            "hold", "unlock", "leave", "finish", "gone"}
PPlaces == {"home", "test", "push", "wait", "leave",
            "q_test", "q_set", "q_wake", "q_join"}

TypeOK ==
  /\ m_Quitting \in BOOLEAN /\ m_wakeup \in Nat
  /\ m_pendingEvents \in Seq(Event) /\ m_idleEvents \in Seq(Event)
  /\ xpc \in XPlaces /\ list \in {"pending", "idle"}
  /\ cur \in Event \cup {NoEvent}
  /\ m_alreadyStopped \in BOOLEAN /\ resumed \in {"none", "allow", "skip"}
  /\ running \in BOOLEAN
  /\ pc \in [Posters -> PPlaces]
  /\ event \in [Posters -> Event \cup {NoEvent}]
  /\ inScope \in [Posters -> Event \cup {NoEvent}]
  /\ m_sync \in [Posters -> {"none", "ok", "failed"}]
  /\ m_sync_resume \in [Posters -> {"none", "allow", "skip"}]
  /\ m_mtx_resume \in [Posters -> BOOLEAN]
  /\ posted \in [Posters -> 0..MaxEvents]
  /\ fate \in [Posters -> [1..MaxEvents -> {"none", "done", "refused"}]]

Init ==
  /\ m_Quitting = FALSE /\ m_wakeup = 0
  /\ m_pendingEvents = <<>> /\ m_idleEvents = <<>>
  /\ xpc = "idle" /\ list = "idle" /\ cur = NoEvent
  /\ m_alreadyStopped = FALSE /\ resumed = "none"
  /\ running \in BOOLEAN
  /\ pc = [p \in Posters |-> "home"]
  /\ event = [p \in Posters |-> NoEvent]
  /\ inScope = [p \in Posters |-> NoEvent]
  /\ m_sync = [p \in Posters |-> "none"]
  /\ m_sync_resume = [p \in Posters |-> "none"]
  /\ m_mtx_resume = [p \in Posters |-> FALSE]
  /\ posted = [p \in Posters |-> 0]
  /\ fate = [p \in Posters |-> [n \in 1..MaxEvents |-> "none"]]

Ends(e, how) == fate' = [fate EXCEPT ![e.by][e.n] = how]

-----------------------------------------------------------------------------
(* The threads that post *)

Go(p, to) == pc' = [pc EXCEPT ![p] = to]

\* Inside a scope a thread posts what it does not wait for, and opens no
\* second scope: ScopedCore_IsPaused makes that one do nothing.
Begin(p, k) ==
  /\ pc[p] = "home" /\ posted[p] < MaxEvents
  /\ inScope[p] = NoEvent \/ k \notin Waited
  /\ posted' = [posted EXCEPT ![p] = @ + 1]
  /\ event' = [event EXCEPT ![p] = [by |-> p, n |-> posted[p] + 1, kind |-> k,
                                    sync |-> k \in Waited]]
  /\ Go(p, "test")
  /\ UNCHANGED <<queueVars, execVars, running, inScope, syncVars, fate>>

\* The thread goes on: it waits for the result, or for nothing.
Posted(p) ==
  IF event[p].sync THEN Go(p, "wait") /\ UNCHANGED event
                   ELSE Go(p, "home") /\ event' = [event EXCEPT ![p] = NoEvent]

\* SynchronousActionState::PostResult
PostResult(e, how) ==
  m_sync' = IF e.sync THEN [m_sync EXCEPT ![e.by] = how] ELSE m_sync

TestQuitting(p) ==
  /\ pc[p] = "test"
  /\ IF m_Quitting
       THEN /\ PostResult(event[p], "ok") /\ Ends(event[p], "refused")
            /\ Posted(p)
       ELSE /\ Go(p, "push") /\ UNCHANGED <<event, m_sync, fate>>
  /\ UNCHANGED <<queueVars, execVars, running, inScope, posted,
                 m_sync_resume, m_mtx_resume>>

\* Bug: every event wakes the executor except the first of the queue.
WakesSecond(p) == m_pendingEvents # <<>>

\* The event wakes the executor: only the first of the queue does.
Wakes(p) == m_pendingEvents = <<>>

\* Bug: an idle event is queued for idle time even when nothing is pending.
ForIdleTimeAlways(p) == event[p].kind = "idle"

\* The event goes to the idle list.
ForIdleTime(p) == event[p].kind = "idle" /\ m_pendingEvents # <<>>

Push(p) ==
  /\ pc[p] = "push"
  /\ IF ForIdleTime(p)
       THEN /\ m_idleEvents' = Append(m_idleEvents, event[p])
            /\ UNCHANGED <<m_pendingEvents, m_wakeup>>
       ELSE /\ m_pendingEvents' = Append(m_pendingEvents, event[p])
            /\ m_wakeup' = IF Wakes(p) THEN m_wakeup + 1 ELSE m_wakeup
            /\ UNCHANGED m_idleEvents
  /\ Posted(p)
  /\ UNCHANGED <<m_Quitting, execVars, running, inScope, posted,
                 syncVars, fate>>

\* WaitForResult returns, or throws what the event threw: a scope whose
\* constructor throws is not entered.
Returned(p) ==
  /\ pc[p] = "wait" /\ m_sync[p] # "none"
  /\ m_sync' = [m_sync EXCEPT ![p] = "none"]
  /\ inScope' = [inScope EXCEPT ![p] =
                   IF event[p].kind = "scope" /\ m_sync[p] = "ok"
                   THEN event[p] ELSE NoEvent]
  /\ event' = [event EXCEPT ![p] = NoEvent]
  /\ Go(p, "home")
  /\ UNCHANGED <<queueVars, execVars, running, posted,
                 m_sync_resume, m_mtx_resume, fate>>

\* DoResume of a thread that is not the executor, with m_allowResume or not.
LeaveScope(p, how) ==
  /\ pc[p] = "home" /\ inScope[p] # NoEvent
  /\ m_sync_resume' = [m_sync_resume EXCEPT ![p] = how]
  /\ Go(p, "leave")
  /\ UNCHANGED <<queueVars, execVars, running, event, inScope, posted,
                 m_sync, m_mtx_resume, fate>>

\* m_mtx_resume is free, and the objects of the scope end with it.
ScopeLeft(p) ==
  /\ pc[p] = "leave" /\ ~m_mtx_resume[p]
  /\ m_sync_resume' = [m_sync_resume EXCEPT ![p] = "none"]
  /\ inScope' = [inScope EXCEPT ![p] = NoEvent]
  /\ Go(p, "home")
  /\ UNCHANGED <<queueVars, execVars, running, event, posted,
                 m_sync, m_mtx_resume, fate>>

\* ExecutorThread::ShutdownQueue tests m_Quitting, and so does what it calls.
ShutdownQueue(p) ==
  /\ pc[p] = "home" /\ inScope[p] = NoEvent
  /\ Go(p, IF m_Quitting THEN "q_join" ELSE "q_test")
  /\ UNCHANGED <<queueVars, execVars, running, event, inScope, posted,
                 syncVars, fate>>

ShutdownTest(p) ==
  /\ pc[p] = "q_test"
  /\ Go(p, IF m_Quitting THEN "q_join" ELSE "q_set")
  /\ UNCHANGED <<queueVars, execVars, running, event, inScope, posted,
                 syncVars, fate>>

ShutdownSet(p) ==
  /\ pc[p] = "q_set"
  /\ m_Quitting' = TRUE
  /\ Go(p, "q_wake")
  /\ UNCHANGED <<m_wakeup, m_pendingEvents, m_idleEvents, execVars, running,
                 event, inScope, posted, syncVars, fate>>

\* Bug: a shutdown does not wake the executor.
ShutdownSilent(p) ==
  /\ pc[p] = "q_wake"
  /\ Go(p, "q_join")
  /\ UNCHANGED <<queueVars, execVars, running,
                 event, inScope, posted, syncVars, fate>>

ShutdownWake(p) ==
  /\ pc[p] = "q_wake"
  /\ m_wakeup' = m_wakeup + 1
  /\ Go(p, "q_join")
  /\ UNCHANGED <<m_Quitting, m_pendingEvents, m_idleEvents, execVars, running,
                 event, inScope, posted, syncVars, fate>>

ShutdownJoin(p) ==
  /\ pc[p] = "q_join" /\ xpc = "gone"
  /\ Go(p, "home")
  /\ UNCHANGED <<queueVars, execVars, running, event, inScope, posted,
                 syncVars, fate>>

-----------------------------------------------------------------------------
(* The executor *)

XGo(to) == xpc' = to

Queue(l) == IF l = "idle" THEN m_idleEvents ELSE m_pendingEvents

\* Bug: while quitting, critical events are skipped too.
RunsNone(e) == ~m_Quitting

\* The events that ProcessEvents still runs.
Runs(e) == ~m_Quitting \/ e.kind \in Critical

\* ProcessEvents takes the next event of its list.
Take ==
  /\ xpc \in {"idle", "pending"} /\ Queue(xpc) # <<>>
  /\ IF xpc = "idle"
       THEN /\ m_idleEvents' = Tail(m_idleEvents) /\ UNCHANGED m_pendingEvents
       ELSE /\ m_pendingEvents' = Tail(m_pendingEvents) /\ UNCHANGED m_idleEvents
  /\ LET e == Head(Queue(xpc)) IN
       IF Runs(e)
         THEN /\ cur' = e /\ list' = xpc
              /\ XGo(IF e.kind = "scope" THEN "enter" ELSE "run")
              /\ UNCHANGED <<m_sync, fate>>
         ELSE /\ PostResult(e, "ok") /\ Ends(e, "refused")
              /\ UNCHANGED <<cur, list, xpc>>
  /\ UNCHANGED <<m_Quitting, m_wakeup, m_alreadyStopped, resumed, running,
                 posterVars, m_sync_resume, m_mtx_resume>>

\* ProcessEvents finds its list empty.
Drained ==
  /\ xpc \in {"idle", "pending"} /\ Queue(xpc) = <<>>
  /\ XGo(IF xpc = "idle" THEN "sleep" ELSE "test")
  /\ UNCHANGED <<queueVars, list, cur, m_alreadyStopped, resumed, running,
                 posterVars, syncVars, fate>>

Wake ==
  /\ xpc = "sleep" /\ m_wakeup > 0
  /\ m_wakeup' = m_wakeup - 1
  /\ XGo("pending")
  /\ UNCHANGED <<m_Quitting, m_pendingEvents, m_idleEvents, list, cur,
                 m_alreadyStopped, resumed, running, posterVars, syncVars, fate>>

TestShutdown ==
  /\ xpc = "test"
  /\ XGo(IF m_Quitting THEN "gone" ELSE "idle")
  /\ UNCHANGED <<queueVars, list, cur, m_alreadyStopped, resumed, running,
                 posterVars, syncVars, fate>>

\* What an event may do to the core: an rpc is Suspend or Cancel.
CoreAfter(k) == CASE k = "async" -> BOOLEAN
                  [] k = "rpc"   -> {FALSE}
                  [] OTHER       -> {running}

\* Bug: the event answers its caller before it has run.
InvokeAnswersFirst ==
  /\ xpc = "run"
  /\ running' \in CoreAfter(cur.kind) \cup {running}
  /\ PostResult(cur, "ok")
  /\ XGo("finish")
  /\ UNCHANGED <<queueVars, list, cur, m_alreadyStopped, resumed, posterVars,
                 m_sync_resume, m_mtx_resume, fate>>

\* InvokeEvent of an event without a scope; it may throw, with any part done.
Invoke ==
  /\ xpc = "run"
  /\ running' \in CoreAfter(cur.kind) \cup {running}
  /\ XGo("finish")
  /\ UNCHANGED <<queueVars, list, cur, m_alreadyStopped, resumed, posterVars,
                 syncVars, fate>>

\* The scope object on the executor's stack stops the core.  If that throws, the
\* object has not come to be, and nothing is resumed.
EnterScope ==
  /\ xpc = "enter"
  /\ \/ /\ m_alreadyStopped' = ~running
        /\ running' = FALSE
        /\ XGo("lock")
     \/ /\ running
        /\ running' \in BOOLEAN
        /\ XGo("finish")
        /\ UNCHANGED m_alreadyStopped
  /\ UNCHANGED <<queueVars, list, cur, resumed, posterVars, syncVars, fate>>

\* DoScopedTask is done, and _post_and_wait takes m_mtx_resume.
LockResume ==
  /\ xpc = "lock"
  /\ m_mtx_resume' = [m_mtx_resume EXCEPT ![cur.by] = TRUE]
  /\ XGo("post")
  /\ UNCHANGED <<queueVars, list, cur, m_alreadyStopped, resumed, running,
                 posterVars, m_sync, m_sync_resume, fate>>

\* DoScopedTask throws: the scope object goes before anybody is told.
ScopeThrows ==
  /\ xpc = "lock"
  /\ XGo("leave")
  /\ UNCHANGED <<queueVars, list, cur, m_alreadyStopped, resumed, running,
                 posterVars, syncVars, fate>>

PostScope ==
  /\ xpc = "post"
  /\ PostResult(cur, "ok")
  /\ XGo("hold")
  /\ UNCHANGED <<queueVars, list, cur, m_alreadyStopped, resumed, running,
                 posterVars, m_sync_resume, m_mtx_resume, fate>>

\* Bug: m_sync is kept when the owner does not allow the resume.
HoldEndsKeepSync ==
  /\ xpc = "hold" /\ m_sync_resume[cur.by] # "none"
  /\ resumed' = m_sync_resume[cur.by]
  /\ cur' = [cur EXCEPT !.sync = m_sync_resume[cur.by] = "skip"]
  /\ m_sync_resume' = [m_sync_resume EXCEPT ![cur.by] = "none"]
  /\ XGo("unlock")
  /\ UNCHANGED <<queueVars, list, m_alreadyStopped, running, posterVars,
                 m_sync, m_mtx_resume, fate>>

\* The owner leaves the scope: its m_sync is about to go.
HoldEnds ==
  /\ xpc = "hold" /\ m_sync_resume[cur.by] # "none"
  /\ resumed' = m_sync_resume[cur.by]
  /\ cur' = [cur EXCEPT !.sync = FALSE]
  /\ m_sync_resume' = [m_sync_resume EXCEPT ![cur.by] = "none"]
  /\ XGo("unlock")
  /\ UNCHANGED <<queueVars, list, m_alreadyStopped, running, posterVars,
                 m_sync, m_mtx_resume, fate>>

UnlockResume ==
  /\ xpc = "unlock"
  /\ m_mtx_resume' = [m_mtx_resume EXCEPT ![cur.by] = FALSE]
  /\ XGo("leave")
  /\ UNCHANGED <<queueVars, list, cur, m_alreadyStopped, resumed, running,
                 posterVars, m_sync, m_sync_resume, fate>>

\* DoResume of the scope object on the executor's stack.
DoResume ==
  /\ xpc = "leave"
  /\ running' = (running \/ ~m_alreadyStopped)
  /\ m_alreadyStopped' = FALSE /\ resumed' = "none"
  /\ XGo("finish")
  /\ UNCHANGED <<queueVars, list, cur, posterVars, syncVars, fate>>

\* CleanupEvent, after an exception too.  A scope that was held has no m_sync
\* left; one that was not has failed.
CleanupEvent ==
  /\ xpc = "finish"
  /\ \E how \in IF cur.kind = "scope" THEN {"failed"} ELSE {"ok", "failed"} :
       PostResult(cur, how)
  /\ Ends(cur, "done")
  /\ cur' = NoEvent
  /\ XGo(list)
  /\ UNCHANGED <<queueVars, list, m_alreadyStopped, resumed, running,
                 posterVars, m_sync_resume, m_mtx_resume>>

-----------------------------------------------------------------------------
Chooses(p) ==
  \/ \E k \in Kinds[p] : Begin(p, k)
  \/ p \in Quitters /\ ShutdownQueue(p)

Proceeds(p) ==
  \/ TestQuitting(p) \/ Push(p) \/ Returned(p)
  \/ \E how \in {"allow", "skip"} : LeaveScope(p, how)
  \/ ScopeLeft(p)
  \/ ShutdownTest(p) \/ ShutdownSet(p) \/ ShutdownWake(p) \/ ShutdownJoin(p)

ExecutorNext ==
  \/ Take \/ Drained \/ Wake \/ TestShutdown \/ Invoke \/ CleanupEvent
  \/ EnterScope \/ LockResume \/ ScopeThrows \/ PostScope \/ HoldEnds
  \/ UnlockResume \/ DoResume

Next == ExecutorNext \/ \E p \in Posters : Chooses(p) \/ Proceeds(p)

Spec == Init /\ [][Next]_vars

\* A call goes on, a scope is left in the end, and the executor is scheduled.
FairSpec == Spec /\ WF_vars(ExecutorNext) /\ \A p \in Posters : WF_vars(Proceeds(p))

-----------------------------------------------------------------------------
(* What the executor and the scopes promise *)

\* An executor that sleeps with events queued has been woken: PostEvent posts
\* m_wakeup for the first event of the queue only, and PostIdleEvent not at
\* all when it uses the idle list.
WokenForWork ==
  xpc = "sleep" /\ (m_pendingEvents # <<>> \/ m_idleEvents # <<>>)
    => m_wakeup > 0

\* A caller that is told of success has had its event executed, or holds the
\* executor in it, or the executor is quitting and refused it.
AnswerMeansDone ==
  \A p \in Posters :
    LET e == event[p]
    IN  pc[p] = "wait" /\ m_sync[p] = "ok" =>
          \/ fate[p][e.n] = "done"
          \/ fate[p][e.n] = "refused" /\ m_Quitting
          \/ e.kind = "scope" /\ xpc = "hold" /\ cur = e

\* The scope of p has not been refused: it holds the executor.
Holds(p) == inScope[p] # NoEvent /\ fate[p][inScope[p].n] # "refused"

\* No core runs behind the back of a thread that has entered its scope,
\* whatever other threads post meanwhile.
CoreHeld == \A p \in Posters : Holds(p) /\ pc[p] # "leave" => ~running

\* The objects of a scope live in its owner's stack frame.  The executor uses
\* them only while the owner is still waiting for it, in its scope, or
\* leaving it; the result of any waited event only while its caller waits.
ObjectsAlive ==
  /\ xpc \in {"lock", "post", "hold", "unlock"} =>
       \/ pc[cur.by] = "wait" /\ event[cur.by].n = cur.n
       \/ inScope[cur.by] # NoEvent /\ inScope[cur.by].n = cur.n
  /\ xpc \in {"run", "finish"} /\ cur.sync =>
       pc[cur.by] = "wait" /\ event[cur.by].n = cur.n

\* Both at once: a scope that is held is safe on either side.
ScopesHold == CoreHeld /\ ObjectsAlive

\* Whoever waits for an event is answered, unless the executor is shut down;
\* and a shutdown ends, whatever is queued or held at the time.
CallsReturn ==
  \A p \in Posters :
    /\ pc[p] = "wait" ~> (pc[p] # "wait" \/ m_Quitting)
    /\ pc[p] = "q_join" ~> pc[p] = "home"

\* Whatever is queued is executed, idle events too, unless the executor is
\* shut down.
EventsRun ==
  (m_pendingEvents # <<>> \/ m_idleEvents # <<>>)
    ~> ((m_pendingEvents = <<>> /\ m_idleEvents = <<>>) \/ m_Quitting)

\* AppCoreThread.h:201 says that the destructor of a scope does not unroll the
\* suspend operation unless AllowResume has been called.
ResumeOnlyIfAllowed ==
  [][DoResume /\ running' /\ ~running => resumed # "skip"]_vars

=============================================================================
