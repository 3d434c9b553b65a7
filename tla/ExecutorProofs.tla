--------------------------- MODULE ExecutorProofs ---------------------------
(* Proofs about Executor: no event is overlooked by a sleeping executor, an  *)
(* answer means what it says, a scope that is held is safe, and the executor *)
(* implements the task queue.                                                *)
EXTENDS ExecutorRefinement, TLAPS

Busy == {"run", "enter", "lock", "post", "hold", "unlock", "leave", "finish"}
OfScope == {"enter", "lock", "post", "hold", "unlock", "leave"}

\* The events of a list.
InQ(q) == {q[i] : i \in 1..Len(q)}
NoDup(q) == \A i, j \in 1..Len(q) : q[i] = q[j] => i = j
SameId(e, f) == e.by = f.by /\ e.n = f.n

Fresh(p) == pc[p] \in {"test", "push"}

\* The executor is at an event exactly where it works on one.
CurPlaced ==
  /\ xpc \in Busy <=> cur # NoEvent
  /\ xpc \in OfScope => cur.kind = "scope"
  /\ xpc = "run" => cur.kind # "scope"

\* What each poster holds, by its place in the code.
PosterAt(p) ==
  /\ pc[p] \in {"test", "push", "wait"} <=> event[p] # NoEvent
  /\ event[p] # NoEvent =>
       /\ event[p].by = p /\ event[p].n <= posted[p]
       /\ event[p].sync = (event[p].kind \in Waited)
  /\ pc[p] = "wait" => event[p].sync
  /\ m_sync[p] # "none" => pc[p] = "wait"
  /\ inScope[p] # NoEvent =>
       /\ inScope[p].by = p /\ inScope[p].n <= posted[p]
       /\ pc[p] \in {"home", "test", "push", "leave"}
  /\ pc[p] = "leave" => inScope[p] # NoEvent
  /\ m_sync_resume[p] # "none" => pc[p] = "leave"
  /\ inScope[p] # NoEvent /\ event[p] # NoEvent => event[p].kind \notin Waited

PosterPlaced == \A p \in Posters : PosterAt(p)

\* The events that are still to be executed, refused or finished.
IsLive(e) ==
  \/ e \in InQ(m_pendingEvents) \/ e \in InQ(m_idleEvents)
  \/ e # NoEvent /\ e = cur
  \/ \E p \in Posters : Fresh(p) /\ e = event[p]

\* They are told apart by their ids, and nothing has become of them yet.
LiveApart ==
  /\ \A e, f \in Event : IsLive(e) /\ IsLive(f) /\ SameId(e, f) => e = f
  /\ NoDup(m_pendingEvents) /\ NoDup(m_idleEvents)
  /\ InQ(m_pendingEvents) \cap InQ(m_idleEvents) = {}
  /\ cur \notin InQ(m_pendingEvents) \cup InQ(m_idleEvents)
  /\ \A p \in Posters : Fresh(p) =>
       event[p] \notin InQ(m_pendingEvents) \cup InQ(m_idleEvents) \cup {cur}

LiveUntold ==
  /\ \A e \in Event : IsLive(e) => fate[e.by][e.n] = "none" /\ e.n <= posted[e.by]
  /\ \A p \in Posters : \A n \in 1..MaxEvents :
       n > posted[p] => fate[p][n] = "none"

\* Whoever posted an event that is to be answered is waiting for it.
Awaited(e) == pc[e.by] = "wait" /\ event[e.by] = e /\ m_sync[e.by] = "none"

OwnersWait ==
  /\ \A e \in InQ(m_pendingEvents) : /\ e.sync => Awaited(e)
                                     /\ e.kind = "scope" => e.sync
  /\ \A e \in InQ(m_idleEvents) : ~e.sync /\ e.kind # "scope"
  /\ cur # NoEvent /\ cur.sync /\ xpc # "hold" => Awaited(cur)
  /\ xpc \in {"enter", "lock", "post"} => cur.sync
  /\ xpc = "hold" =>
       /\ cur.sync
       /\ \/ pc[cur.by] = "wait" /\ event[cur.by] = cur /\ m_sync[cur.by] = "ok"
          \/ inScope[cur.by] = cur
  /\ xpc = "unlock" =>
       /\ ~cur.sync /\ pc[cur.by] = "leave"
       /\ inScope[cur.by] # NoEvent /\ inScope[cur.by].n = cur.n
  /\ \A p \in Posters :
       m_mtx_resume[p] <=> (xpc \in {"post", "hold", "unlock"} /\ cur.by = p)

\* A scope that was granted holds the executor, and the core with it.
Granted ==
  /\ xpc \in {"lock", "post", "hold", "unlock"} => ~running
  /\ \A p \in Posters :
       /\ pc[p] = "wait" /\ m_sync[p] = "ok" =>
            LET e == event[p]
            IN  \/ fate[p][e.n] = "done" /\ e.kind # "scope"
                \/ fate[p][e.n] = "refused" /\ m_Quitting
                \/ e.kind = "scope" /\ xpc = "hold" /\ cur = e
       /\ Holds(p) /\ pc[p] # "leave" => xpc = "hold" /\ cur = inScope[p]

\* A list is not empty only if the executor is to look at it.
ToBeSeen ==
  /\ m_pendingEvents # <<>> =>
       \/ m_wakeup > 0 \/ xpc = "pending"
       \/ cur # NoEvent /\ list = "pending"
  /\ xpc = "sleep" /\ m_idleEvents # <<>> => m_wakeup > 0

IInv == /\ TypeOK /\ CurPlaced /\ PosterPlaced /\ LiveApart /\ LiveUntold
        /\ OwnersWait /\ Granted /\ ToBeSeen

-----------------------------------------------------------------------------
(* Lists *)

\* An event put at the end of a list.
LEMMA AppendFacts ==
  ASSUME NEW q \in Seq(Event), NEW e \in Event
  PROVE  /\ InQ(Append(q, e)) = InQ(q) \cup {e}
         /\ NoDup(q) /\ e \notin InQ(q) => NoDup(Append(q, e))
<1> DEFINE r == Append(q, e)
<1>1. r \in Seq(Event) /\ Len(r) = Len(q) + 1 /\ r[Len(q) + 1] = e
      /\ \A i \in 1..Len(q) : r[i] = q[i]
  OBVIOUS
<1> HIDE DEF r
<1>2. InQ(r) = InQ(q) \cup {e}
  BY <1>1 DEF InQ
<1>3. NoDup(q) /\ e \notin InQ(q) => NoDup(r)
  BY <1>1 DEF InQ, NoDup
<1>4. QED
  BY <1>2, <1>3 DEF r

\* An event taken from the front of a list.
LEMMA TailFacts ==
  ASSUME NEW q \in Seq(Event), q # <<>>
  PROVE  /\ Head(q) \in InQ(q) /\ Head(q) \in Event
         /\ Tail(q) \in Seq(Event)
         /\ InQ(Tail(q)) \subseteq InQ(q)
         /\ NoDup(q) => /\ NoDup(Tail(q))
                        /\ InQ(Tail(q)) = InQ(q) \ {Head(q)}
<1> DEFINE r == Tail(q)
<1>1. r \in Seq(Event) /\ Len(r) = Len(q) - 1 /\ Len(q) \in Nat \ {0}
      /\ \A i \in 1..Len(r) : r[i] = q[i + 1]
  OBVIOUS
<1>2. Head(q) = q[1] /\ q[1] \in Event
  OBVIOUS
<1> HIDE DEF r
<1>3. Head(q) \in InQ(q)
  BY <1>1, <1>2 DEF InQ
<1>4. InQ(r) \subseteq InQ(q)
  BY <1>1 DEF InQ
<1>5. ASSUME NoDup(q) PROVE NoDup(r)
  BY <1>1, <1>5 DEF NoDup
<1>6. ASSUME NoDup(q) PROVE InQ(r) = InQ(q) \ {Head(q)}
  <2>1. Head(q) \notin InQ(r)
    BY <1>1, <1>2, <1>6 DEF InQ, NoDup
  <2>2. ASSUME NEW e \in InQ(q), e # Head(q) PROVE e \in InQ(r)
    <3>1. PICK i \in 1..Len(q) : e = q[i]
      BY DEF InQ
    <3>2. i # 1 /\ i - 1 \in 1..Len(r) /\ r[i - 1] = q[i]
      BY <1>1, <1>2, <2>2, <3>1
    <3>3. QED
      BY <3>1, <3>2 DEF InQ
  <2>3. QED
    BY <1>4, <2>1, <2>2
<1>7. QED
  BY <1>1, <1>2, <1>3, <1>4, <1>5, <1>6 DEF r

\* The elements of a list are events.
LEMMA InQEvents ==
  ASSUME NEW q \in Seq(Event)
  PROVE  InQ(q) \subseteq Event
BY DEF InQ

LEMMA NoEventApart == NoEvent \notin Event
<1>1. NoEvent.kind = "none"
  BY DEF NoEvent
<1>2. \A e \in Event : e.kind \in AllKinds
  BY DEF Event
<1>3. QED
  BY <1>1, <1>2 DEF AllKinds

-----------------------------------------------------------------------------
(* Each part of the invariant is kept by every step *)
LEMMA EventFields ==
  ASSUME NEW e \in Event
  PROVE  /\ e.by \in Posters /\ e.n \in 1..MaxEvents /\ e.kind \in AllKinds
         /\ e.sync \in BOOLEAN /\ e # NoEvent
BY NoEventApart DEF Event

\* What becomes of an event, and what its poster is told.
LEMMA TellType ==
  ASSUME TypeOK, NEW e \in Event, NEW how, NEW end
  PROVE  /\ PostResult(e, how) /\ how \in {"ok", "failed"} =>
              m_sync' \in [Posters -> {"none", "ok", "failed"}]
         /\ Ends(e, end) /\ end \in {"done", "refused"} =>
              fate' \in [Posters -> [1..MaxEvents -> {"none", "done", "refused"}]]
<1>1. e.by \in Posters /\ e.n \in 1..MaxEvents
  BY EventFields
<1>2. PostResult(e, how) /\ how \in {"ok", "failed"} =>
        m_sync' \in [Posters -> {"none", "ok", "failed"}]
  BY <1>1 DEF PostResult, TypeOK
<1>3. ASSUME Ends(e, end), end \in {"done", "refused"}
      PROVE  fate' \in [Posters -> [1..MaxEvents -> {"none", "done", "refused"}]]
  <2>1. fate[e.by] \in [1..MaxEvents -> {"none", "done", "refused"}]
    BY <1>1 DEF TypeOK
  <2>2. [fate[e.by] EXCEPT ![e.n] = end]
          \in [1..MaxEvents -> {"none", "done", "refused"}]
    BY <1>1, <1>3, <2>1
  <2>3. fate' = [fate EXCEPT ![e.by] = [fate[e.by] EXCEPT ![e.n] = end]]
    BY <1>3 DEF Ends
  <2>4. QED
    BY <2>2, <2>3 DEF TypeOK
<1>4. QED
  BY <1>2, <1>3

\* The event the executor takes, and the lists it leaves.
LEMMA TakeFacts ==
  ASSUME TypeOK, Take
  PROVE  /\ Queue(xpc) \in Seq(Event) /\ Queue(xpc) # <<>>
         /\ Head(Queue(xpc)) \in Event /\ Head(Queue(xpc)) # NoEvent
         /\ m_pendingEvents' \in Seq(Event) /\ m_idleEvents' \in Seq(Event)
<1>1. Queue(xpc) \in Seq(Event) /\ Queue(xpc) # <<>>
  BY DEF Take, Queue, TypeOK
<1>2. Head(Queue(xpc)) \in Event /\ Tail(Queue(xpc)) \in Seq(Event)
  BY <1>1
<1>3. m_pendingEvents' \in Seq(Event) /\ m_idleEvents' \in Seq(Event)
  BY <1>2 DEF Take, Queue, TypeOK
<1>4. QED
  BY <1>1, <1>2, <1>3, NoEventApart

\* The event of a scope whose m_sync is dropped.
LEMMA HoldFacts ==
  ASSUME TypeOK, CurPlaced, HoldEnds
  PROVE  /\ cur \in Event /\ cur' \in Event /\ cur' # NoEvent
         /\ SameId(cur', cur) /\ cur'.kind = cur.kind /\ ~cur'.sync
<1>1. cur \in Event
  BY DEF HoldEnds, TypeOK, CurPlaced, Busy
<1>2. cur' \in Event /\ SameId(cur', cur) /\ cur'.kind = cur.kind /\ ~cur'.sync
  BY <1>1 DEF HoldEnds, Event, SameId
<1>3. QED
  BY <1>1, <1>2, NoEventApart

\* The executor works on an event.
LEMMA CurIsEvent ==
  ASSUME TypeOK, CurPlaced, xpc \in Busy
  PROVE  cur \in Event /\ cur # NoEvent /\ cur.by \in Posters
BY EventFields DEF TypeOK, CurPlaced

-----------------------------------------------------------------------------
(* The events that are live *)

\* No event that is live is added.
NoneAdded == \A e \in Event : IsLive(e)' => IsLive(e)

\* No event comes, goes or moves.
LiveKept ==
  /\ UNCHANGED <<m_pendingEvents, m_idleEvents, cur>>
  /\ \A p \in Posters : /\ Fresh(p)' <=> Fresh(p)
                        /\ Fresh(p) => event'[p] = event[p]

LEMMA KeptLive ==
  ASSUME LiveKept
  PROVE  NoneAdded
BY DEF LiveKept, NoneAdded, IsLive

LEMMA KeptApart ==
  ASSUME LiveKept, LiveApart
  PROVE  LiveApart'
<1>1. \A e, f \in Event : IsLive(e)' /\ IsLive(f)' /\ SameId(e, f) => e = f
  BY KeptLive DEF NoneAdded, LiveApart
<1>2. QED
  BY <1>1 DEF LiveKept, LiveApart

LEMMA AddedUntold ==
  ASSUME NoneAdded, UNCHANGED <<fate, posted>>, LiveUntold
  PROVE  LiveUntold'
BY DEF NoneAdded, LiveUntold

\* Only the fate of the event that ends changes.
LEMMA EndChanges ==
  ASSUME TypeOK, NEW e \in Event, NEW how, Ends(e, how)
  PROVE  /\ fate'[e.by][e.n] = how
         /\ \A p \in Posters : \A n \in 1..MaxEvents :
              p # e.by \/ n # e.n => fate'[p][n] = fate[p][n]
<1>1. e.by \in Posters /\ e.n \in 1..MaxEvents
  BY EventFields
<1>2. fate[e.by] \in [1..MaxEvents -> {"none", "done", "refused"}]
  BY <1>1 DEF TypeOK
<1>3. fate' = [fate EXCEPT ![e.by] = [fate[e.by] EXCEPT ![e.n] = how]]
  BY DEF Ends
<1>4. QED
  BY <1>1, <1>2, <1>3 DEF TypeOK

\* An event ends, and is live no more: the others have other ids.
LEMMA EndUntold ==
  ASSUME TypeOK, LiveApart, LiveUntold, NoneAdded, UNCHANGED posted,
         NEW e \in Event, IsLive(e), ~IsLive(e)', NEW how, Ends(e, how)
  PROVE  LiveUntold'
<1>1. e.by \in Posters /\ e.n \in 1..MaxEvents /\ e.n <= posted[e.by]
  BY EventFields DEF LiveUntold
<1>2. \A p \in Posters : \A n \in 1..MaxEvents :
        p # e.by \/ n # e.n => fate'[p][n] = fate[p][n]
  BY EndChanges
<1>3. ASSUME NEW f \in Event, IsLive(f)'
      PROVE  fate'[f.by][f.n] = "none" /\ f.n <= posted'[f.by]
  <2>1. IsLive(f) /\ f # e
    BY <1>3 DEF NoneAdded
  <2>2. f.by # e.by \/ f.n # e.n
    BY <2>1 DEF LiveApart, SameId
  <2>3. QED
    BY <1>2, <2>1, <2>2, EventFields DEF LiveUntold
<1>4. ASSUME NEW p \in Posters, NEW n \in 1..MaxEvents, n > posted'[p]
      PROVE  fate'[p][n] = "none"
  <2>1. n > posted[p]
    BY <1>4
  <2>2. p # e.by \/ n # e.n
    BY <1>1, <2>1 DEF TypeOK
  <2>3. QED
    BY <1>2, <2>1, <2>2 DEF LiveUntold
<1>5. QED
  BY <1>3, <1>4 DEF LiveUntold

\* The event taken was on one of the lists, and is on none.
LEMMA TakeQueues ==
  ASSUME TypeOK, CurPlaced, LiveApart, Take, NEW e, e = Head(Queue(xpc))
  PROVE  /\ e \in Event /\ e # NoEvent /\ cur = NoEvent /\ e.by \in Posters
         /\ e \in InQ(m_pendingEvents) \cup InQ(m_idleEvents)
         /\ InQ(m_pendingEvents)' \subseteq InQ(m_pendingEvents) \ {e}
         /\ InQ(m_idleEvents)' \subseteq InQ(m_idleEvents) \ {e}
<1>1. e \in Event /\ e # NoEvent /\ cur = NoEvent /\ e.by \in Posters
  BY TakeFacts, EventFields DEF Take, CurPlaced, Busy
<1>2. /\ NoDup(m_pendingEvents) /\ NoDup(m_idleEvents)
      /\ InQ(m_pendingEvents) \cap InQ(m_idleEvents) = {}
  BY DEF LiveApart
<1>3. CASE xpc = "idle"
  <2>1. /\ m_idleEvents \in Seq(Event) /\ m_idleEvents # <<>>
        /\ e = Head(m_idleEvents) /\ m_idleEvents' = Tail(m_idleEvents)
        /\ m_pendingEvents' = m_pendingEvents
    BY <1>3 DEF Take, Queue, TypeOK
  <2>2. QED
    BY <1>1, <1>2, <2>1, TailFacts
<1>4. CASE xpc = "pending"
  <2>1. /\ m_pendingEvents \in Seq(Event) /\ m_pendingEvents # <<>>
        /\ e = Head(m_pendingEvents)
        /\ m_pendingEvents' = Tail(m_pendingEvents)
        /\ m_idleEvents' = m_idleEvents
    BY <1>4 DEF Take, Queue, TypeOK
  <2>2. QED
    BY <1>1, <1>2, <2>1, TailFacts
<1>5. QED
  BY <1>3, <1>4 DEF Take

\* The executor takes an event from the front of its list.
LEMMA TakeLive ==
  ASSUME TypeOK, CurPlaced, LiveApart, Take, NEW e, e = Head(Queue(xpc))
  PROVE  /\ e \in Event /\ IsLive(e) /\ NoneAdded /\ LiveApart'
         /\ ~Runs(e) => ~IsLive(e)'
<1> DEFINE P == InQ(m_pendingEvents)
           I == InQ(m_idleEvents)
<1>1. e \in Event /\ e # NoEvent /\ cur = NoEvent
  BY TakeFacts DEF Take, CurPlaced, Busy
<1>2. /\ P \subseteq Event /\ I \subseteq Event
      /\ NoDup(m_pendingEvents) /\ NoDup(m_idleEvents) /\ P \cap I = {}
  BY InQEvents DEF TypeOK, LiveApart
<1>3. /\ \/ e \in P /\ InQ(m_pendingEvents)' = P \ {e} /\ InQ(m_idleEvents)' = I
         \/ e \in I /\ InQ(m_idleEvents)' = I \ {e} /\ InQ(m_pendingEvents)' = P
      /\ NoDup(m_pendingEvents)' /\ NoDup(m_idleEvents)'
  <2>1. CASE xpc = "idle"
    <3>1. /\ m_idleEvents \in Seq(Event) /\ m_idleEvents # <<>>
          /\ e = Head(m_idleEvents) /\ m_idleEvents' = Tail(m_idleEvents)
          /\ m_pendingEvents' = m_pendingEvents
      BY <2>1 DEF Take, Queue, TypeOK
    <3>2. QED
      BY <1>2, <3>1, TailFacts
  <2>2. CASE xpc = "pending"
    <3>1. /\ m_pendingEvents \in Seq(Event) /\ m_pendingEvents # <<>>
          /\ e = Head(m_pendingEvents)
          /\ m_pendingEvents' = Tail(m_pendingEvents)
          /\ m_idleEvents' = m_idleEvents
      BY <2>2 DEF Take, Queue, TypeOK
    <3>2. QED
      BY <1>2, <3>1, TailFacts
  <2>3. QED
    BY <2>1, <2>2 DEF Take
<1>4. /\ cur' = (IF Runs(e) THEN e ELSE NoEvent)
      /\ UNCHANGED <<pc, event>>
  BY <1>1 DEF Take, posterVars
<1>5. \A p \in Posters : Fresh(p) => event[p] \notin P \cup I \cup {cur}
  BY DEF LiveApart
<1>6. NoneAdded
  BY <1>1, <1>3, <1>4 DEF NoneAdded, IsLive, Fresh
<1>7. IsLive(e)
  BY <1>3 DEF IsLive
<1>8. ~Runs(e) => ~IsLive(e)'
  BY <1>1, <1>2, <1>3, <1>4, <1>5 DEF IsLive, Fresh
<1>9. LiveApart'
  <2>1. \A f, g \in Event : IsLive(f)' /\ IsLive(g)' /\ SameId(f, g) => f = g
    BY <1>6 DEF NoneAdded, LiveApart
  <2>2. InQ(m_pendingEvents)' \cap InQ(m_idleEvents)' = {}
    BY <1>2, <1>3
  <2>3. cur' \notin InQ(m_pendingEvents)' \cup InQ(m_idleEvents)'
    BY <1>1, <1>2, <1>3, <1>4, NoEventApart
  <2>4. \A p \in Posters : Fresh(p)' =>
          event'[p] \notin InQ(m_pendingEvents)' \cup InQ(m_idleEvents)' \cup {cur'}
    BY <1>1, <1>3, <1>4, <1>5 DEF Fresh
  <2>5. QED
    BY <1>3, <2>1, <2>2, <2>3, <2>4 DEF LiveApart
<1>10. QED
  BY <1>1, <1>6, <1>7, <1>8, <1>9

\* A poster makes an event, with an id that no live event has.
LEMMA BeginLive ==
  ASSUME TypeOK, LiveApart, LiveUntold,
         NEW p \in Posters, NEW k \in Kinds[p], Begin(p, k)
  PROVE  LiveApart' /\ LiveUntold'
<1>1. PICK e : e = [by |-> p, n |-> posted[p] + 1, kind |-> k,
                    sync |-> k \in Waited]
  OBVIOUS
<1>2. /\ e \in Event /\ e.by = p /\ e.n = posted[p] + 1
      /\ posted[p] \in Nat /\ posted[p] + 1 \in 1..MaxEvents
  <2>1. posted[p] + 1 \in 1..MaxEvents /\ posted[p] \in Nat
    BY ExecutorAssumption DEF Begin, TypeOK
  <2>2. k \in AllKinds
    BY ExecutorAssumption
  <2>3. QED
    BY <1>1, <2>1, <2>2 DEF Event
<1>3. /\ event' = [event EXCEPT ![p] = e] /\ pc' = [pc EXCEPT ![p] = "test"]
      /\ pc[p] = "home" /\ posted' = [posted EXCEPT ![p] = @ + 1]
      /\ UNCHANGED <<m_pendingEvents, m_idleEvents, cur, fate>>
  BY <1>1 DEF Begin, Go, queueVars, execVars
<1>4. /\ Fresh(p)' /\ event'[p] = e /\ ~Fresh(p)
      /\ \A q \in Posters : q # p => /\ Fresh(q)' <=> Fresh(q)
                                     /\ event'[q] = event[q]
  BY <1>3 DEF TypeOK, Fresh
<1>5. \A f \in Event : IsLive(f)' <=> IsLive(f) \/ f = e
  BY <1>2, <1>3, <1>4 DEF IsLive
<1>6. \A f \in Event : IsLive(f) => ~SameId(f, e)
  <2>1. ASSUME NEW f \in Event, IsLive(f), SameId(f, e) PROVE FALSE
    BY <1>2, <2>1 DEF LiveUntold, SameId
  <2>2. QED
    BY <2>1
<1>7. LiveApart'
  <2>1. \A f, g \in Event : IsLive(f)' /\ IsLive(g)' /\ SameId(f, g) => f = g
    BY <1>5, <1>6 DEF LiveApart, SameId
  <2>2. e \notin InQ(m_pendingEvents) \cup InQ(m_idleEvents) \cup {cur}
    BY <1>2, <1>6, NoEventApart DEF IsLive, SameId
  <2>3. \A q \in Posters : Fresh(q)' =>
          event'[q] \notin InQ(m_pendingEvents)' \cup InQ(m_idleEvents)' \cup {cur'}
    BY <1>3, <1>4, <2>2 DEF LiveApart
  <2>4. QED
    BY <1>3, <2>1, <2>3 DEF LiveApart
<1>8. LiveUntold'
  <2>1. \A q \in Posters : posted[q] <= posted'[q] /\ posted'[q] \in Nat
                           /\ posted[q] \in Nat
    BY <1>3 DEF TypeOK
  <2>2. ASSUME NEW f \in Event, IsLive(f)'
        PROVE  fate'[f.by][f.n] = "none" /\ f.n <= posted'[f.by]
    <3>1. CASE f = e
      BY <1>2, <1>3, <3>1 DEF LiveUntold, TypeOK
    <3>2. CASE IsLive(f)
      BY <1>3, <2>1, <3>2, EventFields DEF LiveUntold
    <3>3. QED
      BY <1>5, <2>2, <3>1, <3>2
  <2>3. QED
    BY <1>3, <2>1, <2>2 DEF LiveUntold
<1>9. QED
  BY <1>7, <1>8

\* A poster that finds the executor quitting keeps its event.
LEMMA RefuseLive ==
  ASSUME TypeOK, PosterPlaced, LiveApart, LiveUntold,
         NEW p \in Posters, TestQuitting(p)
  PROVE  LiveApart' /\ LiveUntold'
<1>1. PICK e : e = event[p]
  OBVIOUS
<1>2. e \in Event /\ Fresh(p) /\ IsLive(e)
  BY <1>1 DEF TestQuitting, TypeOK, PosterPlaced, PosterAt, Fresh, IsLive
<1>3. UNCHANGED <<m_pendingEvents, m_idleEvents, cur, posted>>
  BY DEF TestQuitting, queueVars, execVars
<1>4. CASE ~m_Quitting
  <2>1. LiveKept /\ fate' = fate
    BY <1>3, <1>4 DEF TestQuitting, Go, TypeOK, LiveKept, Fresh
  <2>2. QED
    BY <1>3, <2>1, KeptApart, KeptLive, AddedUntold
<1>5. CASE m_Quitting
  <2>1. /\ ~Fresh(p)' /\ Ends(e, "refused")
        /\ \A q \in Posters : q # p => /\ Fresh(q)' <=> Fresh(q)
                                       /\ event'[q] = event[q]
    BY <1>1, <1>5 DEF TestQuitting, Posted, Go, TypeOK, Fresh
  <2>2. NoneAdded
    BY <1>3, <2>1 DEF NoneAdded, IsLive
  <2>3. ~IsLive(e)'
    <3>1. e \notin InQ(m_pendingEvents) \cup InQ(m_idleEvents) \cup {cur}
      BY <1>1, <1>2 DEF LiveApart
    <3>2. \A q \in Posters : q # p /\ Fresh(q) => event[q] # e
      BY <1>1, <1>2, NoEventApart DEF PosterPlaced, PosterAt, Fresh
    <3>3. QED
      BY <1>3, <2>1, <3>1, <3>2 DEF IsLive
  <2>4. LiveApart'
    BY <1>3, <2>1, <2>2 DEF NoneAdded, LiveApart
  <2>5. LiveUntold'
    BY <1>2, <1>3, <2>1, <2>2, <2>3, EndUntold
  <2>6. QED
    BY <2>4, <2>5
<1>6. QED
  BY <1>4, <1>5

\* A poster queues its event.
LEMMA PushLive ==
  ASSUME TypeOK, PosterPlaced, LiveApart, LiveUntold,
         NEW p \in Posters, Push(p)
  PROVE  LiveApart' /\ LiveUntold'
<1>1. PICK e : e = event[p]
  OBVIOUS
<1> DEFINE P == InQ(m_pendingEvents)
           I == InQ(m_idleEvents)
<1>2. /\ e \in Event /\ Fresh(p) /\ e \notin P \cup I \cup {cur}
      /\ UNCHANGED <<cur, posted, fate>>
  BY <1>1 DEF Push, TypeOK, PosterPlaced, PosterAt, Fresh, LiveApart, execVars
<1>3. /\ \/ InQ(m_pendingEvents)' = P \cup {e} /\ InQ(m_idleEvents)' = I
         \/ InQ(m_idleEvents)' = I \cup {e} /\ InQ(m_pendingEvents)' = P
      /\ NoDup(m_pendingEvents)' /\ NoDup(m_idleEvents)'
  <2>1. CASE m_idleEvents' = Append(m_idleEvents, e)
             /\ m_pendingEvents' = m_pendingEvents
    BY <1>2, <2>1, AppendFacts DEF TypeOK, LiveApart
  <2>2. CASE m_pendingEvents' = Append(m_pendingEvents, e)
             /\ m_idleEvents' = m_idleEvents
    BY <1>2, <2>2, AppendFacts DEF TypeOK, LiveApart
  <2>3. QED
    BY <1>1, <2>1, <2>2 DEF Push
<1>4. /\ ~Fresh(p)'
      /\ \A q \in Posters : q # p => /\ Fresh(q)' <=> Fresh(q)
                                     /\ event'[q] = event[q]
  BY DEF Push, Posted, Go, TypeOK, Fresh
<1>5. \A q \in Posters : q # p /\ Fresh(q) => event[q] # e
  BY <1>1, <1>2, NoEventApart DEF PosterPlaced, PosterAt, Fresh
<1>6. NoneAdded
  BY <1>1, <1>2, <1>3, <1>4 DEF NoneAdded, IsLive
<1>7. LiveApart'
  <2>1. \A f, g \in Event : IsLive(f)' /\ IsLive(g)' /\ SameId(f, g) => f = g
    BY <1>6 DEF NoneAdded, LiveApart
  <2>2. InQ(m_pendingEvents)' \cap InQ(m_idleEvents)' = {}
    BY <1>2, <1>3 DEF LiveApart
  <2>3. cur' \notin InQ(m_pendingEvents)' \cup InQ(m_idleEvents)'
    BY <1>2, <1>3 DEF LiveApart
  <2>4. \A q \in Posters : Fresh(q)' =>
          event'[q] \notin InQ(m_pendingEvents)' \cup InQ(m_idleEvents)' \cup {cur'}
    BY <1>2, <1>3, <1>4, <1>5 DEF LiveApart
  <2>5. QED
    BY <1>3, <2>1, <2>2, <2>3, <2>4 DEF LiveApart
<1>8. LiveUntold'
  BY <1>2, <1>6, AddedUntold
<1>9. QED
  BY <1>7, <1>8

\* The executor is done with its event.
LEMMA CleanupLive ==
  ASSUME TypeOK, CurPlaced, PosterPlaced, LiveApart, LiveUntold, CleanupEvent
  PROVE  LiveApart' /\ LiveUntold'
<1>1. PICK e : e = cur
  OBVIOUS
<1>2. e \in Event /\ IsLive(e) /\ Ends(e, "done") /\ cur' = NoEvent
  BY <1>1, CurIsEvent DEF CleanupEvent, Busy, IsLive
<1>3. UNCHANGED <<m_pendingEvents, m_idleEvents, pc, event, posted>>
  BY DEF CleanupEvent, queueVars, posterVars
<1>4. NoneAdded
  BY <1>2, <1>3 DEF NoneAdded, IsLive, Fresh
<1>5. ~IsLive(e)'
  BY <1>1, <1>2, <1>3 DEF IsLive, Fresh, LiveApart
<1>6. LiveApart'
  <2>1. InQ(m_pendingEvents) \subseteq Event /\ InQ(m_idleEvents) \subseteq Event
    BY InQEvents DEF TypeOK
  <2>2. \A p \in Posters : Fresh(p) => event[p] # NoEvent
    BY DEF PosterPlaced, PosterAt, Fresh
  <2>3. QED
    BY <1>2, <1>3, <1>4, <2>1, <2>2, NoEventApart
       DEF LiveApart, NoneAdded, Fresh
<1>7. LiveUntold'
  BY <1>2, <1>3, <1>4, <1>5, EndUntold
<1>8. QED
  BY <1>6, <1>7

\* The event of a scope loses its m_sync, and keeps its id.
LEMMA HoldLive ==
  ASSUME TypeOK, CurPlaced, LiveApart, LiveUntold, HoldEnds
  PROVE  LiveApart' /\ LiveUntold'
<1>1. PICK e, g : e = cur /\ g = cur'
  OBVIOUS
<1>2. e \in Event /\ g \in Event /\ SameId(g, e) /\ g # NoEvent /\ e # NoEvent
  BY <1>1, HoldFacts, NoEventApart
<1>3. UNCHANGED <<m_pendingEvents, m_idleEvents, pc, event, posted, fate>>
  BY DEF HoldEnds, queueVars, posterVars
<1>4. IsLive(e) /\ \A f \in Event : IsLive(f) /\ SameId(f, e) => f = e
  BY <1>1, <1>2 DEF IsLive, LiveApart
<1>5. ~(\E f \in Event : /\ SameId(f, e)
                         /\ \/ f \in InQ(m_pendingEvents) \cup InQ(m_idleEvents)
                            \/ \E p \in Posters : Fresh(p) /\ f = event[p])
  BY <1>1, <1>4 DEF IsLive, LiveApart
<1>6. \A f \in Event : IsLive(f)' => f = g \/ (IsLive(f) /\ ~SameId(f, e))
  BY <1>1, <1>2, <1>3, <1>5 DEF IsLive, Fresh
<1>7. LiveApart'
  <2>1. \A f, h \in Event : IsLive(f)' /\ IsLive(h)' /\ SameId(f, h) => f = h
    BY <1>2, <1>6 DEF LiveApart, SameId
  <2>2. cur' \notin InQ(m_pendingEvents)' \cup InQ(m_idleEvents)'
    BY <1>1, <1>2, <1>3, <1>5
  <2>3. \A p \in Posters : Fresh(p)' => event'[p] # cur'
    BY <1>1, <1>2, <1>3, <1>5 DEF Fresh
  <2>4. QED
    BY <1>3, <2>1, <2>2, <2>3 DEF LiveApart, Fresh
<1>8. LiveUntold'
  BY <1>2, <1>3, <1>4, <1>6 DEF LiveUntold, SameId
<1>9. QED
  BY <1>7, <1>8

\* The executor runs the event it takes, or refuses it.
LEMMA TakenLive ==
  ASSUME TypeOK, CurPlaced, LiveApart, LiveUntold, Take
  PROVE  LiveApart' /\ LiveUntold'
<1>1. PICK e : e = Head(Queue(xpc))
  OBVIOUS
<1>2. /\ e \in Event /\ IsLive(e) /\ NoneAdded /\ LiveApart'
      /\ ~Runs(e) => ~IsLive(e)'
  BY <1>1, TakeLive
<1>3. CASE Runs(e)
  BY <1>1, <1>2, <1>3, AddedUntold DEF Take, posterVars
<1>4. CASE ~Runs(e)
  BY <1>1, <1>2, <1>4, EndUntold DEF Take, posterVars
<1>5. QED
  BY <1>2, <1>3, <1>4

LiveInv == LiveApart /\ LiveUntold

\* Types.
LEMMA TypeStep ==
  ASSUME TypeOK, CurPlaced, PosterPlaced, Next
  PROVE  TypeOK'
<1>1. ASSUME NEW p \in Posters, NEW k \in Kinds[p], Begin(p, k) PROVE TypeOK'
  <2>1. k \in AllKinds
    BY ExecutorAssumption
  <2>2. [by |-> p, n |-> posted[p] + 1, kind |-> k, sync |-> k \in Waited]
          \in Event
    BY <1>1, <2>1, ExecutorAssumption DEF Begin, TypeOK, Event
  <2>3. posted[p] + 1 \in 0..MaxEvents
    BY <1>1, ExecutorAssumption DEF Begin, TypeOK
  <2>4. QED
    BY <1>1, <2>2, <2>3 DEF Begin, TypeOK, XPlaces, PPlaces, Go, XGo,
       queueVars, execVars, posterVars, syncVars
<1>2. ASSUME NEW p \in Posters, ShutdownQueue(p) \/ ShutdownTest(p)
      PROVE TypeOK'
  <2>1. CASE ShutdownQueue(p)
    BY <2>1 DEF ShutdownQueue, TypeOK, XPlaces, PPlaces, Go, XGo, queueVars,
       execVars, posterVars, syncVars
  <2>2. CASE ShutdownTest(p)
    BY <2>2 DEF ShutdownTest, TypeOK, XPlaces, PPlaces, Go, XGo, queueVars,
       execVars, posterVars, syncVars
  <2> QED BY <1>2, <2>1, <2>2
<1>3. ASSUME NEW p \in Posters, TestQuitting(p) PROVE TypeOK'
  <2>1. event[p] \in Event
    BY <1>3, NoEventApart DEF TestQuitting, TypeOK, PosterPlaced, PosterAt
  <2>2. m_sync' \in [Posters -> {"none", "ok", "failed"}]
        /\ fate' \in [Posters -> [1..MaxEvents -> {"none", "done", "refused"}]]
    BY <1>3, <2>1, TellType DEF TestQuitting, TypeOK
  <2>3. QED
    BY <1>3, <2>2 DEF TestQuitting, Posted, TypeOK, XPlaces, PPlaces, Go,
       XGo, queueVars, execVars, posterVars, syncVars
<1>4. ASSUME NEW p \in Posters, Push(p) PROVE TypeOK'
  <2>1. event[p] \in Event
    BY <1>4 DEF Push, TypeOK, PosterPlaced, PosterAt
  <2>2. /\ Append(m_pendingEvents, event[p]) \in Seq(Event)
        /\ Append(m_idleEvents, event[p]) \in Seq(Event)
    BY <2>1 DEF TypeOK
  <2>3. m_pendingEvents' \in Seq(Event) /\ m_idleEvents' \in Seq(Event)
    BY <1>4, <2>2 DEF Push, TypeOK
  <2>4. m_wakeup' \in Nat
    BY <1>4 DEF Push, TypeOK
  <2>5. pc' \in [Posters -> PPlaces]
        /\ event' \in [Posters -> Event \cup {NoEvent}]
    BY <1>4 DEF Push, Posted, TypeOK, XPlaces, PPlaces, Go, XGo, queueVars,
       execVars, posterVars, syncVars
  <2>6. QED
    BY <1>4, <2>3, <2>4, <2>5 DEF Push, TypeOK, XPlaces, PPlaces, Go, XGo,
       queueVars, execVars, posterVars, syncVars
<1>5. ASSUME NEW p \in Posters, Returned(p) PROVE TypeOK'
  BY <1>5 DEF Returned, TypeOK, XPlaces, PPlaces, Go, XGo, queueVars,
     execVars, posterVars, syncVars
<1>6. ASSUME NEW p \in Posters, NEW how \in {"allow", "skip"}, LeaveScope(p, how) PROVE TypeOK'
  BY <1>6 DEF LeaveScope, TypeOK, XPlaces, PPlaces, Go, XGo, queueVars,
     execVars, posterVars, syncVars
<1>7. ASSUME NEW p \in Posters, ScopeLeft(p) PROVE TypeOK'
  BY <1>7 DEF ScopeLeft, TypeOK, XPlaces, PPlaces, Go, XGo, queueVars,
     execVars, posterVars, syncVars
<1>8. ASSUME NEW p \in Posters, ShutdownSet(p) PROVE TypeOK'
  BY <1>8 DEF ShutdownSet, TypeOK, XPlaces, PPlaces, Go, XGo, queueVars,
     execVars, posterVars, syncVars
<1>9. ASSUME NEW p \in Posters, ShutdownWake(p) PROVE TypeOK'
  BY <1>9 DEF ShutdownWake, TypeOK, XPlaces, PPlaces, Go, XGo, queueVars,
     execVars, posterVars, syncVars
<1>10. ASSUME NEW p \in Posters, ShutdownJoin(p) PROVE TypeOK'
  BY <1>10 DEF ShutdownJoin, TypeOK, XPlaces, PPlaces, Go, XGo, queueVars,
     execVars, posterVars, syncVars
<1>11. ASSUME Take PROVE TypeOK'
  <2>1. m_sync' \in [Posters -> {"none", "ok", "failed"}]
        /\ fate' \in [Posters -> [1..MaxEvents -> {"none", "done", "refused"}]]
    BY <1>11, TakeFacts, TellType DEF Take, TypeOK
  <2>2. QED
    BY <1>11, <2>1, TakeFacts DEF Take, TypeOK, XPlaces, PPlaces, Go, XGo,
       queueVars, execVars, posterVars, syncVars
<1>12. ASSUME Drained PROVE TypeOK'
  BY <1>12 DEF Drained, Queue, TypeOK, XPlaces, PPlaces, Go, XGo, queueVars,
     execVars, posterVars, syncVars
<1>13. ASSUME Wake PROVE TypeOK'
  BY <1>13 DEF Wake, TypeOK, XPlaces, PPlaces, Go, XGo, queueVars, execVars,
     posterVars, syncVars
<1>14. ASSUME TestShutdown PROVE TypeOK'
  BY <1>14 DEF TestShutdown, TypeOK, XPlaces, PPlaces, Go, XGo, queueVars,
     execVars, posterVars, syncVars
<1>15. ASSUME Invoke PROVE TypeOK'
  BY <1>15 DEF Invoke, CoreAfter, TypeOK, XPlaces, PPlaces, Go, XGo,
     queueVars, execVars, posterVars, syncVars
<1>16. ASSUME CleanupEvent PROVE TypeOK'
  <2>1. cur \in Event
    BY <1>16 DEF CleanupEvent, TypeOK, CurPlaced, Busy
  <2>2. m_sync' \in [Posters -> {"none", "ok", "failed"}]
        /\ fate' \in [Posters -> [1..MaxEvents -> {"none", "done", "refused"}]]
    BY <1>16, <2>1, TellType DEF CleanupEvent
  <2>3. QED
    BY <1>16, <2>2 DEF CleanupEvent, TypeOK, XPlaces, PPlaces, Go, XGo,
       queueVars, execVars, posterVars, syncVars
<1>17. ASSUME EnterScope PROVE TypeOK'
  BY <1>17 DEF EnterScope, TypeOK, XPlaces, PPlaces, Go, XGo, queueVars,
     execVars, posterVars, syncVars
<1>18. ASSUME LockResume PROVE TypeOK'
  BY <1>18 DEF LockResume, TypeOK, XPlaces, PPlaces, Go, XGo, queueVars,
     execVars, posterVars, syncVars
<1>19. ASSUME ScopeThrows PROVE TypeOK'
  BY <1>19 DEF ScopeThrows, TypeOK, XPlaces, PPlaces, Go, XGo, queueVars,
     execVars, posterVars, syncVars
<1>20. ASSUME PostScope PROVE TypeOK'
  BY <1>20 DEF PostScope, PostResult, TypeOK, XPlaces, PPlaces, Go, XGo,
     queueVars, execVars, posterVars, syncVars
<1>21. ASSUME HoldEnds PROVE TypeOK'
  <2>1. cur' \in Event /\ cur.by \in Posters
    BY <1>21, HoldFacts, EventFields
  <2>2. QED
    BY <1>21, <2>1 DEF HoldEnds, TypeOK, XPlaces, PPlaces, Go, XGo,
       queueVars, execVars, posterVars, syncVars
<1>22. ASSUME UnlockResume PROVE TypeOK'
  BY <1>22 DEF UnlockResume, TypeOK, XPlaces, PPlaces, Go, XGo, queueVars,
     execVars, posterVars, syncVars
<1>23. ASSUME DoResume PROVE TypeOK'
  BY <1>23 DEF DoResume, TypeOK, XPlaces, PPlaces, Go, XGo, queueVars,
     execVars, posterVars, syncVars
<1>24. QED
  BY <1>1, <1>2, <1>3, <1>4, <1>5, <1>6, <1>7, <1>8, <1>9, <1>10, <1>11,
     <1>12, <1>13, <1>14, <1>15, <1>16, <1>17, <1>18, <1>19, <1>20, <1>21,
     <1>22, <1>23
     DEF Next, ExecutorNext, Chooses, Proceeds

\* Where the executor is.
LEMMA CurPlacedStep ==
  ASSUME TypeOK, CurPlaced, Next
  PROVE  CurPlaced'
<1>1. ASSUME NEW p \in Posters, NEW k \in Kinds[p], Begin(p, k) PROVE CurPlaced'
  BY <1>1 DEF Begin, CurPlaced, Busy, OfScope, TypeOK, NoEvent, Go, XGo,
     queueVars, execVars, posterVars, syncVars
<1>2. ASSUME NEW p \in Posters, ShutdownQueue(p) \/ ShutdownTest(p)
      PROVE CurPlaced'
  <2>1. CASE ShutdownQueue(p)
    BY <2>1 DEF ShutdownQueue, CurPlaced, Busy, OfScope, TypeOK, NoEvent, Go,
       XGo, queueVars, execVars, posterVars, syncVars
  <2>2. CASE ShutdownTest(p)
    BY <2>2 DEF ShutdownTest, CurPlaced, Busy, OfScope, TypeOK, NoEvent, Go,
       XGo, queueVars, execVars, posterVars, syncVars
  <2> QED BY <1>2, <2>1, <2>2
<1>3. ASSUME NEW p \in Posters, TestQuitting(p) PROVE CurPlaced'
  BY <1>3 DEF TestQuitting, PostResult, Posted, Ends, CurPlaced, Busy,
     OfScope, TypeOK, NoEvent, Go, XGo, queueVars, execVars, posterVars,
     syncVars
<1>4. ASSUME NEW p \in Posters, Push(p) PROVE CurPlaced'
  BY <1>4 DEF Push, ForIdleTime, Wakes, Posted, CurPlaced, Busy, OfScope,
     TypeOK, NoEvent, Go, XGo, queueVars, execVars, posterVars, syncVars
<1>5. ASSUME NEW p \in Posters, Returned(p) PROVE CurPlaced'
  BY <1>5 DEF Returned, CurPlaced, Busy, OfScope, TypeOK, NoEvent, Go, XGo,
     queueVars, execVars, posterVars, syncVars
<1>6. ASSUME NEW p \in Posters, NEW how \in {"allow", "skip"}, LeaveScope(p, how) PROVE CurPlaced'
  BY <1>6 DEF LeaveScope, CurPlaced, Busy, OfScope, TypeOK, NoEvent, Go, XGo,
     queueVars, execVars, posterVars, syncVars
<1>7. ASSUME NEW p \in Posters, ScopeLeft(p) PROVE CurPlaced'
  BY <1>7 DEF ScopeLeft, CurPlaced, Busy, OfScope, TypeOK, NoEvent, Go, XGo,
     queueVars, execVars, posterVars, syncVars
<1>8. ASSUME NEW p \in Posters, ShutdownSet(p) PROVE CurPlaced'
  BY <1>8 DEF ShutdownSet, CurPlaced, Busy, OfScope, TypeOK, NoEvent, Go,
     XGo, queueVars, execVars, posterVars, syncVars
<1>9. ASSUME NEW p \in Posters, ShutdownWake(p) PROVE CurPlaced'
  BY <1>9 DEF ShutdownWake, CurPlaced, Busy, OfScope, TypeOK, NoEvent, Go,
     XGo, queueVars, execVars, posterVars, syncVars
<1>10. ASSUME NEW p \in Posters, ShutdownJoin(p) PROVE CurPlaced'
  BY <1>10 DEF ShutdownJoin, CurPlaced, Busy, OfScope, TypeOK, NoEvent, Go,
     XGo, queueVars, execVars, posterVars, syncVars
<1>11. ASSUME Take PROVE CurPlaced'
  BY <1>11, TakeFacts DEF Take, CurPlaced, Busy, OfScope, XGo, posterVars
<1>12. ASSUME Drained PROVE CurPlaced'
  BY <1>12 DEF Drained, Queue, CurPlaced, Busy, OfScope, TypeOK, NoEvent, Go,
     XGo, queueVars, execVars, posterVars, syncVars
<1>13. ASSUME Wake PROVE CurPlaced'
  BY <1>13 DEF Wake, CurPlaced, Busy, OfScope, TypeOK, NoEvent, Go, XGo,
     queueVars, execVars, posterVars, syncVars
<1>14. ASSUME TestShutdown PROVE CurPlaced'
  BY <1>14 DEF TestShutdown, CurPlaced, Busy, OfScope, TypeOK, NoEvent, Go,
     XGo, queueVars, execVars, posterVars, syncVars
<1>15. ASSUME Invoke PROVE CurPlaced'
  BY <1>15 DEF Invoke, CoreAfter, CurPlaced, Busy, OfScope, TypeOK, NoEvent,
     Go, XGo, queueVars, execVars, posterVars, syncVars
<1>16. ASSUME CleanupEvent PROVE CurPlaced'
  BY <1>16 DEF CleanupEvent, PostResult, Ends, CurPlaced, Busy, OfScope,
     TypeOK, NoEvent, Go, XGo, queueVars, execVars, posterVars, syncVars
<1>17. ASSUME EnterScope PROVE CurPlaced'
  BY <1>17 DEF EnterScope, CurPlaced, Busy, OfScope, TypeOK, NoEvent, Go,
     XGo, queueVars, execVars, posterVars, syncVars
<1>18. ASSUME LockResume PROVE CurPlaced'
  BY <1>18 DEF LockResume, CurPlaced, Busy, OfScope, TypeOK, NoEvent, Go,
     XGo, queueVars, execVars, posterVars, syncVars
<1>19. ASSUME ScopeThrows PROVE CurPlaced'
  BY <1>19 DEF ScopeThrows, CurPlaced, Busy, OfScope, TypeOK, NoEvent, Go,
     XGo, queueVars, execVars, posterVars, syncVars
<1>20. ASSUME PostScope PROVE CurPlaced'
  BY <1>20 DEF PostScope, PostResult, CurPlaced, Busy, OfScope, TypeOK,
     NoEvent, Go, XGo, queueVars, execVars, posterVars, syncVars
<1>21. ASSUME HoldEnds PROVE CurPlaced'
  BY <1>21, HoldFacts DEF HoldEnds, CurPlaced, Busy, OfScope, XGo
<1>22. ASSUME UnlockResume PROVE CurPlaced'
  BY <1>22 DEF UnlockResume, CurPlaced, Busy, OfScope, TypeOK, NoEvent, Go,
     XGo, queueVars, execVars, posterVars, syncVars
<1>23. ASSUME DoResume PROVE CurPlaced'
  BY <1>23 DEF DoResume, CurPlaced, Busy, OfScope, TypeOK, NoEvent, Go, XGo,
     queueVars, execVars, posterVars, syncVars
<1>24. QED
  BY <1>1, <1>2, <1>3, <1>4, <1>5, <1>6, <1>7, <1>8, <1>9, <1>10, <1>11,
     <1>12, <1>13, <1>14, <1>15, <1>16, <1>17, <1>18, <1>19, <1>20, <1>21,
     <1>22, <1>23
     DEF Next, ExecutorNext, Chooses, Proceeds

\* What is queued is to be seen.
LEMMA ToBeSeenStep ==
  ASSUME TypeOK, CurPlaced, ToBeSeen, Next
  PROVE  ToBeSeen'
<1>1. ASSUME NEW p \in Posters, NEW k \in Kinds[p], Begin(p, k) PROVE ToBeSeen'
  BY <1>1 DEF Begin, ToBeSeen, CurPlaced, Busy, TypeOK, Go, XGo, queueVars,
     execVars, posterVars, syncVars
<1>2. ASSUME NEW p \in Posters, ShutdownQueue(p) \/ ShutdownTest(p)
      PROVE ToBeSeen'
  <2>1. CASE ShutdownQueue(p)
    BY <2>1 DEF ShutdownQueue, ToBeSeen, CurPlaced, Busy, TypeOK, Go, XGo,
       queueVars, execVars, posterVars, syncVars
  <2>2. CASE ShutdownTest(p)
    BY <2>2 DEF ShutdownTest, ToBeSeen, CurPlaced, Busy, TypeOK, Go, XGo,
       queueVars, execVars, posterVars, syncVars
  <2> QED BY <1>2, <2>1, <2>2
<1>3. ASSUME NEW p \in Posters, TestQuitting(p) PROVE ToBeSeen'
  BY <1>3 DEF TestQuitting, PostResult, Posted, Ends, ToBeSeen, CurPlaced,
     Busy, TypeOK, Go, XGo, queueVars, execVars, posterVars, syncVars
<1>4. ASSUME NEW p \in Posters, Push(p) PROVE ToBeSeen'
  BY <1>4 DEF Push, ForIdleTime, Wakes, Posted, ToBeSeen, CurPlaced, Busy,
     TypeOK, Go, XGo, queueVars, execVars, posterVars, syncVars
<1>5. ASSUME NEW p \in Posters, Returned(p) PROVE ToBeSeen'
  BY <1>5 DEF Returned, ToBeSeen, CurPlaced, Busy, TypeOK, Go, XGo,
     queueVars, execVars, posterVars, syncVars
<1>6. ASSUME NEW p \in Posters, NEW how \in {"allow", "skip"}, LeaveScope(p, how) PROVE ToBeSeen'
  BY <1>6 DEF LeaveScope, ToBeSeen, CurPlaced, Busy, TypeOK, Go, XGo,
     queueVars, execVars, posterVars, syncVars
<1>7. ASSUME NEW p \in Posters, ScopeLeft(p) PROVE ToBeSeen'
  BY <1>7 DEF ScopeLeft, ToBeSeen, CurPlaced, Busy, TypeOK, Go, XGo,
     queueVars, execVars, posterVars, syncVars
<1>8. ASSUME NEW p \in Posters, ShutdownSet(p) PROVE ToBeSeen'
  BY <1>8 DEF ShutdownSet, ToBeSeen, CurPlaced, Busy, TypeOK, Go, XGo,
     queueVars, execVars, posterVars, syncVars
<1>9. ASSUME NEW p \in Posters, ShutdownWake(p) PROVE ToBeSeen'
  BY <1>9 DEF ShutdownWake, ToBeSeen, CurPlaced, Busy, TypeOK, Go, XGo,
     queueVars, execVars, posterVars, syncVars
<1>10. ASSUME NEW p \in Posters, ShutdownJoin(p) PROVE ToBeSeen'
  BY <1>10 DEF ShutdownJoin, ToBeSeen, CurPlaced, Busy, TypeOK, Go, XGo,
     queueVars, execVars, posterVars, syncVars
<1>11. ASSUME Take PROVE ToBeSeen'
  BY <1>11, TakeFacts DEF Take, Queue, ToBeSeen, CurPlaced, Busy, TypeOK, Go,
     XGo, queueVars, execVars, posterVars, syncVars
<1>12. ASSUME Drained PROVE ToBeSeen'
  BY <1>12 DEF Drained, Queue, ToBeSeen, CurPlaced, Busy, TypeOK, Go, XGo,
     queueVars, execVars, posterVars, syncVars
<1>13. ASSUME Wake PROVE ToBeSeen'
  BY <1>13 DEF Wake, ToBeSeen, CurPlaced, Busy, TypeOK, Go, XGo, queueVars,
     execVars, posterVars, syncVars
<1>14. ASSUME TestShutdown PROVE ToBeSeen'
  BY <1>14 DEF TestShutdown, ToBeSeen, CurPlaced, Busy, TypeOK, Go, XGo,
     queueVars, execVars, posterVars, syncVars
<1>15. ASSUME Invoke PROVE ToBeSeen'
  BY <1>15 DEF Invoke, CoreAfter, ToBeSeen, CurPlaced, Busy, TypeOK, Go, XGo,
     queueVars, execVars, posterVars, syncVars
<1>16. ASSUME CleanupEvent PROVE ToBeSeen'
  BY <1>16 DEF CleanupEvent, PostResult, Ends, ToBeSeen, CurPlaced, Busy,
     TypeOK, Go, XGo, queueVars, execVars, posterVars, syncVars
<1>17. ASSUME EnterScope PROVE ToBeSeen'
  BY <1>17 DEF EnterScope, ToBeSeen, CurPlaced, Busy, TypeOK, Go, XGo,
     queueVars, execVars, posterVars, syncVars
<1>18. ASSUME LockResume PROVE ToBeSeen'
  BY <1>18 DEF LockResume, ToBeSeen, CurPlaced, Busy, TypeOK, Go, XGo,
     queueVars, execVars, posterVars, syncVars
<1>19. ASSUME ScopeThrows PROVE ToBeSeen'
  BY <1>19 DEF ScopeThrows, ToBeSeen, CurPlaced, Busy, TypeOK, Go, XGo,
     queueVars, execVars, posterVars, syncVars
<1>20. ASSUME PostScope PROVE ToBeSeen'
  BY <1>20 DEF PostScope, PostResult, ToBeSeen, CurPlaced, Busy, TypeOK, Go,
     XGo, queueVars, execVars, posterVars, syncVars
<1>21. ASSUME HoldEnds PROVE ToBeSeen'
  BY <1>21, HoldFacts DEF HoldEnds, ToBeSeen, CurPlaced, Busy, TypeOK, Go,
     XGo, queueVars, execVars, posterVars, syncVars
<1>22. ASSUME UnlockResume PROVE ToBeSeen'
  BY <1>22 DEF UnlockResume, ToBeSeen, CurPlaced, Busy, TypeOK, Go, XGo,
     queueVars, execVars, posterVars, syncVars
<1>23. ASSUME DoResume PROVE ToBeSeen'
  BY <1>23 DEF DoResume, ToBeSeen, CurPlaced, Busy, TypeOK, Go, XGo,
     queueVars, execVars, posterVars, syncVars
<1>24. QED
  BY <1>1, <1>2, <1>3, <1>4, <1>5, <1>6, <1>7, <1>8, <1>9, <1>10, <1>11,
     <1>12, <1>13, <1>14, <1>15, <1>16, <1>17, <1>18, <1>19, <1>20, <1>21,
     <1>22, <1>23
     DEF Next, ExecutorNext, Chooses, Proceeds

\* Where each poster is.
LEMMA PosterPlacedStep ==
  ASSUME TypeOK, CurPlaced, PosterPlaced, OwnersWait, Next
  PROVE  PosterPlaced'
<1>1. ASSUME NEW p \in Posters, NEW k \in Kinds[p], Begin(p, k) PROVE PosterPlaced'
  <2> DEFINE e == [by |-> p, n |-> posted[p] + 1, kind |-> k,
                   sync |-> k \in Waited]
  <2>1. /\ e.by = p /\ e.n = posted[p] + 1 /\ e.kind = k
        /\ e.sync = (k \in Waited) /\ k # "none"
    BY ExecutorAssumption DEF AllKinds
  <2>2. e # NoEvent
    BY <2>1 DEF NoEvent
  <2> HIDE DEF e
  <2>3. /\ event' = [event EXCEPT ![p] = e] /\ pc' = [pc EXCEPT ![p] = "test"]
        /\ posted' = [posted EXCEPT ![p] = @ + 1] /\ pc[p] = "home"
        /\ inScope[p] = NoEvent \/ k \notin Waited
        /\ UNCHANGED <<inScope, m_sync, m_sync_resume>>
    BY <1>1 DEF Begin, e, PosterPlaced, PosterAt, TypeOK, Go, XGo, queueVars,
       execVars, posterVars, syncVars
  <2>4. ASSUME NEW q \in Posters, q # p PROVE PosterAt(q)'
    BY <2>3, <2>4 DEF PosterPlaced, PosterAt, TypeOK
  <2>5. PosterAt(p)'
    <3>1. /\ event'[p] = e /\ pc'[p] = "test" /\ posted'[p] = posted[p] + 1
          /\ posted[p] \in Nat
      BY <2>3 DEF TypeOK
    <3>2. PosterAt(p) /\ (inScope[p] # NoEvent => inScope[p].n \in Nat)
      BY EventFields DEF PosterPlaced, TypeOK
    <3>3. QED
      BY <2>1, <2>2, <2>3, <3>1, <3>2 DEF PosterAt
  <2>6. QED
    BY <2>4, <2>5 DEF PosterPlaced
<1>2. ASSUME NEW p \in Posters, ShutdownQueue(p) \/ ShutdownTest(p)
      PROVE PosterPlaced'
  <2>1. CASE ShutdownQueue(p)
    BY <2>1 DEF ShutdownQueue, PosterPlaced, PosterAt, TypeOK, Go, XGo,
       queueVars, execVars, posterVars, syncVars
  <2>2. CASE ShutdownTest(p)
    BY <2>2 DEF ShutdownTest, PosterPlaced, PosterAt, TypeOK, Go, XGo,
       queueVars, execVars, posterVars, syncVars
  <2> QED BY <1>2, <2>1, <2>2
<1>3. ASSUME NEW p \in Posters, TestQuitting(p) PROVE PosterPlaced'
  <2>1. event[p] \in Event /\ event[p].by = p
    BY <1>3 DEF TestQuitting, TypeOK, PosterPlaced, PosterAt
  <2>2. m_sync' = IF m_Quitting /\ event[p].sync
                  THEN [m_sync EXCEPT ![p] = "ok"] ELSE m_sync
    BY <1>3, <2>1 DEF TestQuitting, PostResult
  <2>3. ASSUME NEW q \in Posters, q # p PROVE PosterAt(q)'
    BY <1>3, <2>2, <2>3 DEF TestQuitting, Posted, PosterPlaced, PosterAt,
       TypeOK, Go, XGo, queueVars, execVars, posterVars, syncVars
  <2>4. PosterAt(p)'
    <3>1. PosterAt(p)
      BY DEF PosterPlaced
    <3>2. CASE m_Quitting
      <4>1. /\ Posted(p) /\ pc[p] = "test" /\ event[p] # NoEvent
            /\ UNCHANGED <<inScope, posted, m_sync_resume>>
        BY <1>3, <2>1, <3>2, NoEventApart DEF TestQuitting
      <4>2. CASE event[p].sync
        <5>1. inScope[p] = NoEvent
          BY <3>1, <4>1, <4>2 DEF PosterAt
        <5>2. /\ pc'[p] = "wait" /\ m_sync'[p] = "ok" /\ event'[p] = event[p]
              /\ inScope'[p] = NoEvent /\ m_sync_resume'[p] = "none"
              /\ posted'[p] = posted[p]
          BY <2>1, <2>2, <3>1, <3>2, <4>1, <4>2, <5>1
             DEF Posted, PosterAt, TypeOK, Go
        <5>3. QED
          BY <3>1, <4>1, <4>2, <5>1, <5>2 DEF PosterAt
      <4>3. CASE ~event[p].sync
        BY <2>1, <2>2, <3>1, <3>2, <4>1, <4>3 DEF Posted, PosterAt, TypeOK, Go
      <4>4. QED
        BY <4>2, <4>3
    <3>3. CASE ~m_Quitting
      BY <1>3, <2>2, <3>1, <3>3 DEF TestQuitting, PosterAt, TypeOK, Go
    <3>4. QED
      BY <3>2, <3>3
  <2>5. QED
    BY <2>3, <2>4 DEF PosterPlaced
<1>4. ASSUME NEW p \in Posters, Push(p) PROVE PosterPlaced'
  <2>1. /\ Posted(p) /\ pc[p] = "push"
        /\ UNCHANGED <<posted, inScope, m_sync, m_sync_resume>>
    BY <1>4 DEF Push, PosterPlaced, PosterAt, TypeOK, Go, XGo, queueVars,
       execVars, posterVars, syncVars
  <2>2. ASSUME NEW q \in Posters, q # p PROVE PosterAt(q)'
    BY <2>1, <2>2 DEF Posted, PosterPlaced, PosterAt, TypeOK, Go, XGo,
       queueVars, execVars, posterVars, syncVars
  <2>3. PosterAt(p)'
    <3>1. PosterAt(p)
      BY DEF PosterPlaced
    <3>2. QED
      BY <2>1, <3>1 DEF Posted, PosterAt, TypeOK, Go
  <2>4. QED
    BY <2>2, <2>3 DEF PosterPlaced
<1>5. ASSUME NEW p \in Posters, Returned(p) PROVE PosterPlaced'
  BY <1>5 DEF Returned, PosterPlaced, PosterAt, TypeOK, Go, XGo, queueVars,
     execVars, posterVars, syncVars
<1>6. ASSUME NEW p \in Posters, NEW how \in {"allow", "skip"}, LeaveScope(p, how)
      PROVE  PosterPlaced'
  BY <1>6 DEF LeaveScope, PosterPlaced, PosterAt, TypeOK, Go, XGo, queueVars,
     execVars, posterVars, syncVars
<1>7. ASSUME NEW p \in Posters, ScopeLeft(p) PROVE PosterPlaced'
  BY <1>7 DEF ScopeLeft, PosterPlaced, PosterAt, TypeOK, Go, XGo, queueVars,
     execVars, posterVars, syncVars
<1>8. ASSUME NEW p \in Posters, ShutdownSet(p) PROVE PosterPlaced'
  BY <1>8 DEF ShutdownSet, PosterPlaced, PosterAt, TypeOK, Go, XGo,
     queueVars, execVars, posterVars, syncVars
<1>9. ASSUME NEW p \in Posters, ShutdownWake(p) PROVE PosterPlaced'
  BY <1>9 DEF ShutdownWake, PosterPlaced, PosterAt, TypeOK, Go, XGo,
     queueVars, execVars, posterVars, syncVars
<1>10. ASSUME NEW p \in Posters, ShutdownJoin(p) PROVE PosterPlaced'
  BY <1>10 DEF ShutdownJoin, PosterPlaced, PosterAt, TypeOK, Go, XGo,
     queueVars, execVars, posterVars, syncVars
<1>11. ASSUME Take PROVE PosterPlaced'
  <2> DEFINE e == Head(Queue(xpc))
  <2>1. e \in Event /\ (e.sync => pc[e.by] = "wait")
    BY <1>11, TakeFacts, TailFacts DEF Take, Queue, OwnersWait, Awaited
  <2>2. /\ \A q \in Posters :
             m_sync'[q] # "none" => m_sync[q] # "none" \/ pc[q] = "wait"
        /\ UNCHANGED <<pc, event, inScope, posted, m_sync_resume>>
    BY <1>11, <2>1, EventFields DEF Take, PostResult, PosterPlaced, PosterAt,
       TypeOK, Go, XGo, queueVars, execVars, posterVars, syncVars
  <2> HIDE DEF e
  <2>3. QED
    BY <2>2 DEF PosterPlaced, PosterAt
<1>12. ASSUME Drained PROVE PosterPlaced'
  BY <1>12 DEF Drained, Queue, PosterPlaced, PosterAt, TypeOK, Go, XGo,
     queueVars, execVars, posterVars, syncVars
<1>13. ASSUME Wake PROVE PosterPlaced'
  BY <1>13 DEF Wake, PosterPlaced, PosterAt, TypeOK, Go, XGo, queueVars,
     execVars, posterVars, syncVars
<1>14. ASSUME TestShutdown PROVE PosterPlaced'
  BY <1>14 DEF TestShutdown, PosterPlaced, PosterAt, TypeOK, Go, XGo,
     queueVars, execVars, posterVars, syncVars
<1>15. ASSUME Invoke PROVE PosterPlaced'
  BY <1>15 DEF Invoke, CoreAfter, PosterPlaced, PosterAt, TypeOK, Go, XGo,
     queueVars, execVars, posterVars, syncVars
<1>16. ASSUME CleanupEvent PROVE PosterPlaced'
  <2>1. cur \in Event /\ (cur.sync => pc[cur.by] = "wait")
    BY <1>16, CurIsEvent DEF CleanupEvent, Busy, OwnersWait, Awaited
  <2>2. /\ \A q \in Posters :
             m_sync'[q] # "none" => m_sync[q] # "none" \/ pc[q] = "wait"
        /\ UNCHANGED <<pc, event, inScope, posted, m_sync_resume>>
    BY <1>16, <2>1, EventFields DEF CleanupEvent, PostResult, PosterPlaced,
       PosterAt, TypeOK, Go, XGo, queueVars, execVars, posterVars, syncVars
  <2>3. QED
    BY <2>2 DEF PosterPlaced, PosterAt
<1>17. ASSUME EnterScope PROVE PosterPlaced'
  BY <1>17 DEF EnterScope, PosterPlaced, PosterAt, TypeOK, Go, XGo,
     queueVars, execVars, posterVars, syncVars
<1>18. ASSUME LockResume PROVE PosterPlaced'
  BY <1>18 DEF LockResume, PosterPlaced, PosterAt, TypeOK, Go, XGo,
     queueVars, execVars, posterVars, syncVars
<1>19. ASSUME ScopeThrows PROVE PosterPlaced'
  BY <1>19 DEF ScopeThrows, PosterPlaced, PosterAt, TypeOK, Go, XGo,
     queueVars, execVars, posterVars, syncVars
<1>20. ASSUME PostScope PROVE PosterPlaced'
  <2>1. cur \in Event /\ (cur.sync => pc[cur.by] = "wait")
    BY <1>20, CurIsEvent DEF PostScope, Busy, OwnersWait, Awaited
  <2>2. /\ \A q \in Posters :
             m_sync'[q] # "none" => m_sync[q] # "none" \/ pc[q] = "wait"
        /\ UNCHANGED <<pc, event, inScope, posted, m_sync_resume>>
    BY <1>20, <2>1, EventFields DEF PostScope, PostResult, PosterPlaced,
       PosterAt, TypeOK, Go, XGo, queueVars, execVars, posterVars, syncVars
  <2>3. QED
    BY <2>2 DEF PosterPlaced, PosterAt
<1>21. ASSUME HoldEnds PROVE PosterPlaced'
  BY <1>21 DEF HoldEnds, PosterPlaced, PosterAt, TypeOK, Go, XGo, queueVars,
     execVars, posterVars, syncVars
<1>22. ASSUME UnlockResume PROVE PosterPlaced'
  BY <1>22 DEF UnlockResume, PosterPlaced, PosterAt, TypeOK, Go, XGo,
     queueVars, execVars, posterVars, syncVars
<1>23. ASSUME DoResume PROVE PosterPlaced'
  BY <1>23 DEF DoResume, PosterPlaced, PosterAt, TypeOK, Go, XGo, queueVars,
     execVars, posterVars, syncVars
<1>24. QED
  BY <1>1, <1>2, <1>3, <1>4, <1>5, <1>6, <1>7, <1>8, <1>9, <1>10, <1>11,
     <1>12, <1>13, <1>14, <1>15, <1>16, <1>17, <1>18, <1>19, <1>20, <1>21,
     <1>22, <1>23
     DEF Next, ExecutorNext, Chooses, Proceeds

\* The events that are live.
LEMMA LiveStep ==
  ASSUME TypeOK, CurPlaced, PosterPlaced, LiveInv, Next
  PROVE  LiveInv'
<1>1. ASSUME NEW p \in Posters, NEW k \in Kinds[p], Begin(p, k) PROVE LiveInv'
  BY <1>1, BeginLive DEF LiveInv
<1>2. ASSUME NEW p \in Posters, ShutdownQueue(p) \/ ShutdownTest(p) PROVE LiveInv'
  <2>1. LiveKept /\ UNCHANGED <<fate, posted>>
    BY <1>2 DEF ShutdownQueue, ShutdownTest, LiveKept, Fresh, TypeOK, Go, XGo,
       queueVars, execVars, posterVars, syncVars
  <2>2. QED
    BY <2>1, KeptApart, KeptLive, AddedUntold DEF LiveInv
<1>3. ASSUME NEW p \in Posters, TestQuitting(p) PROVE LiveInv'
  BY <1>3, RefuseLive DEF LiveInv
<1>4. ASSUME NEW p \in Posters, Push(p) PROVE LiveInv'
  BY <1>4, PushLive DEF LiveInv
<1>5. ASSUME NEW p \in Posters, Returned(p) PROVE LiveInv'
  <2>1. LiveKept /\ UNCHANGED <<fate, posted>>
    BY <1>5 DEF Returned, LiveKept, Fresh, TypeOK, Go, XGo, queueVars,
       execVars, posterVars, syncVars
  <2>2. QED
    BY <2>1, KeptApart, KeptLive, AddedUntold DEF LiveInv
<1>6. ASSUME NEW p \in Posters, NEW how \in {"allow", "skip"}, LeaveScope(p, how) PROVE LiveInv'
  <2>1. LiveKept /\ UNCHANGED <<fate, posted>>
    BY <1>6 DEF LeaveScope, LiveKept, Fresh, TypeOK, Go, XGo, queueVars,
       execVars, posterVars, syncVars
  <2>2. QED
    BY <2>1, KeptApart, KeptLive, AddedUntold DEF LiveInv
<1>7. ASSUME NEW p \in Posters, ScopeLeft(p) PROVE LiveInv'
  <2>1. LiveKept /\ UNCHANGED <<fate, posted>>
    BY <1>7 DEF ScopeLeft, LiveKept, Fresh, TypeOK, Go, XGo, queueVars,
       execVars, posterVars, syncVars
  <2>2. QED
    BY <2>1, KeptApart, KeptLive, AddedUntold DEF LiveInv
<1>8. ASSUME NEW p \in Posters, ShutdownSet(p) PROVE LiveInv'
  <2>1. LiveKept /\ UNCHANGED <<fate, posted>>
    BY <1>8 DEF ShutdownSet, LiveKept, Fresh, TypeOK, Go, XGo, queueVars,
       execVars, posterVars, syncVars
  <2>2. QED
    BY <2>1, KeptApart, KeptLive, AddedUntold DEF LiveInv
<1>9. ASSUME NEW p \in Posters, ShutdownWake(p) PROVE LiveInv'
  <2>1. LiveKept /\ UNCHANGED <<fate, posted>>
    BY <1>9 DEF ShutdownWake, LiveKept, Fresh, TypeOK, Go, XGo, queueVars,
       execVars, posterVars, syncVars
  <2>2. QED
    BY <2>1, KeptApart, KeptLive, AddedUntold DEF LiveInv
<1>10. ASSUME NEW p \in Posters, ShutdownJoin(p) PROVE LiveInv'
  <2>1. LiveKept /\ UNCHANGED <<fate, posted>>
    BY <1>10 DEF ShutdownJoin, LiveKept, Fresh, TypeOK, Go, XGo, queueVars,
       execVars, posterVars, syncVars
  <2>2. QED
    BY <2>1, KeptApart, KeptLive, AddedUntold DEF LiveInv
<1>11. ASSUME Take PROVE LiveInv'
  BY <1>11, TakenLive DEF LiveInv
<1>12. ASSUME Drained PROVE LiveInv'
  <2>1. LiveKept /\ UNCHANGED <<fate, posted>>
    BY <1>12 DEF Drained, Queue, LiveKept, Fresh, TypeOK, Go, XGo, queueVars,
       execVars, posterVars, syncVars
  <2>2. QED
    BY <2>1, KeptApart, KeptLive, AddedUntold DEF LiveInv
<1>13. ASSUME Wake PROVE LiveInv'
  <2>1. LiveKept /\ UNCHANGED <<fate, posted>>
    BY <1>13 DEF Wake, LiveKept, Fresh, TypeOK, Go, XGo, queueVars, execVars,
       posterVars, syncVars
  <2>2. QED
    BY <2>1, KeptApart, KeptLive, AddedUntold DEF LiveInv
<1>14. ASSUME TestShutdown PROVE LiveInv'
  <2>1. LiveKept /\ UNCHANGED <<fate, posted>>
    BY <1>14 DEF TestShutdown, LiveKept, Fresh, TypeOK, Go, XGo, queueVars,
       execVars, posterVars, syncVars
  <2>2. QED
    BY <2>1, KeptApart, KeptLive, AddedUntold DEF LiveInv
<1>15. ASSUME Invoke PROVE LiveInv'
  <2>1. LiveKept /\ UNCHANGED <<fate, posted>>
    BY <1>15 DEF Invoke, CoreAfter, LiveKept, Fresh, TypeOK, Go, XGo,
       queueVars, execVars, posterVars, syncVars
  <2>2. QED
    BY <2>1, KeptApart, KeptLive, AddedUntold DEF LiveInv
<1>16. ASSUME CleanupEvent PROVE LiveInv'
  BY <1>16, CleanupLive DEF LiveInv
<1>17. ASSUME EnterScope PROVE LiveInv'
  <2>1. LiveKept /\ UNCHANGED <<fate, posted>>
    BY <1>17 DEF EnterScope, LiveKept, Fresh, TypeOK, Go, XGo, queueVars,
       execVars, posterVars, syncVars
  <2>2. QED
    BY <2>1, KeptApart, KeptLive, AddedUntold DEF LiveInv
<1>18. ASSUME LockResume PROVE LiveInv'
  <2>1. LiveKept /\ UNCHANGED <<fate, posted>>
    BY <1>18 DEF LockResume, LiveKept, Fresh, TypeOK, Go, XGo, queueVars,
       execVars, posterVars, syncVars
  <2>2. QED
    BY <2>1, KeptApart, KeptLive, AddedUntold DEF LiveInv
<1>19. ASSUME ScopeThrows PROVE LiveInv'
  <2>1. LiveKept /\ UNCHANGED <<fate, posted>>
    BY <1>19 DEF ScopeThrows, LiveKept, Fresh, TypeOK, Go, XGo, queueVars,
       execVars, posterVars, syncVars
  <2>2. QED
    BY <2>1, KeptApart, KeptLive, AddedUntold DEF LiveInv
<1>20. ASSUME PostScope PROVE LiveInv'
  <2>1. LiveKept /\ UNCHANGED <<fate, posted>>
    BY <1>20 DEF PostScope, PostResult, LiveKept, Fresh, TypeOK, Go, XGo,
       queueVars, execVars, posterVars, syncVars
  <2>2. QED
    BY <2>1, KeptApart, KeptLive, AddedUntold DEF LiveInv
<1>21. ASSUME HoldEnds PROVE LiveInv'
  BY <1>21, HoldLive DEF LiveInv
<1>22. ASSUME UnlockResume PROVE LiveInv'
  <2>1. LiveKept /\ UNCHANGED <<fate, posted>>
    BY <1>22 DEF UnlockResume, LiveKept, Fresh, TypeOK, Go, XGo, queueVars,
       execVars, posterVars, syncVars
  <2>2. QED
    BY <2>1, KeptApart, KeptLive, AddedUntold DEF LiveInv
<1>23. ASSUME DoResume PROVE LiveInv'
  <2>1. LiveKept /\ UNCHANGED <<fate, posted>>
    BY <1>23 DEF DoResume, LiveKept, Fresh, TypeOK, Go, XGo, queueVars,
       execVars, posterVars, syncVars
  <2>2. QED
    BY <2>1, KeptApart, KeptLive, AddedUntold DEF LiveInv
<1>24. QED
  BY <1>1, <1>2, <1>3, <1>4, <1>5, <1>6, <1>7, <1>8, <1>9, <1>10, <1>11,
     <1>12, <1>13, <1>14, <1>15, <1>16, <1>17, <1>18, <1>19, <1>20, <1>21,
     <1>22, <1>23
     DEF Next, ExecutorNext, Chooses, Proceeds

\* Who waits for what is to be answered.
LEMMA OwnersStep ==
  ASSUME TypeOK, CurPlaced, PosterPlaced, LiveInv, OwnersWait, Next
  PROVE  OwnersWait'
<1>1. ASSUME NEW p \in Posters, NEW k \in Kinds[p], Begin(p, k) PROVE OwnersWait'
  BY <1>1 DEF Begin, OwnersWait, Awaited, CurPlaced, Busy, OfScope,
     PosterPlaced, PosterAt, TypeOK, Go, XGo, queueVars, execVars,
     posterVars, syncVars
<1>2. ASSUME NEW p \in Posters, ShutdownQueue(p) \/ ShutdownTest(p)
      PROVE OwnersWait'
  <2>1. CASE ShutdownQueue(p)
    BY <2>1 DEF ShutdownQueue, OwnersWait, Awaited, CurPlaced, Busy, OfScope,
       PosterPlaced, PosterAt, TypeOK, Go, XGo, queueVars, execVars,
       posterVars, syncVars
  <2>2. CASE ShutdownTest(p)
    BY <2>2 DEF ShutdownTest, OwnersWait, Awaited, CurPlaced, Busy, OfScope,
       PosterPlaced, PosterAt, TypeOK, Go, XGo, queueVars, execVars,
       posterVars, syncVars
  <2> QED BY <1>2, <2>1, <2>2
<1>3. ASSUME NEW p \in Posters, TestQuitting(p) PROVE OwnersWait'
  <2>1. /\ pc[p] = "test" /\ event[p] \in Event /\ event[p].by = p
        /\ UNCHANGED <<m_pendingEvents, m_idleEvents, cur, xpc, inScope,
                       m_mtx_resume>>
        /\ \A q \in Posters : q # p =>
             /\ pc'[q] = pc[q] /\ event'[q] = event[q] /\ m_sync'[q] = m_sync[q]
    BY <1>3 DEF TestQuitting, PostResult, Posted, PosterPlaced, PosterAt,
       TypeOK, Go,
              queueVars, execVars
  <2>2. \A e \in Event : Awaited(e) => Awaited(e)'
    BY <2>1, EventFields DEF Awaited
  <2>3. cur # NoEvent => cur \in Event /\ cur.by \in Posters
    BY EventFields DEF TypeOK
  <2>4. /\ InQ(m_pendingEvents) \subseteq Event
        /\ xpc \in {"hold", "unlock"} => cur # NoEvent
    BY InQEvents DEF TypeOK, CurPlaced, Busy
  <2>5. QED
    BY <2>1, <2>2, <2>3, <2>4 DEF OwnersWait
<1>4. ASSUME NEW p \in Posters, Push(p) PROVE OwnersWait'
  <2>1. /\ pc[p] = "push" /\ event[p] \in Event /\ event[p].by = p
        /\ event[p].sync = (event[p].kind \in Waited) /\ m_sync[p] = "none"
        /\ UNCHANGED <<cur, xpc, inScope, m_mtx_resume, m_sync>>
        /\ \A q \in Posters : q # p => pc'[q] = pc[q] /\ event'[q] = event[q]
        /\ event[p].sync => pc'[p] = "wait" /\ event'[p] = event[p]
    BY <1>4 DEF Push, Posted, PosterPlaced, PosterAt, TypeOK, Go, execVars,
       syncVars
  <2>2. \A e \in Event : Awaited(e) => Awaited(e)'
    BY <2>1, EventFields DEF Awaited
  <2>3. cur # NoEvent => cur \in Event /\ cur.by \in Posters
    BY EventFields DEF TypeOK
  <2>4. /\ InQ(m_pendingEvents) \subseteq Event
        /\ xpc \in {"hold", "unlock"} => cur # NoEvent
    BY InQEvents DEF TypeOK, CurPlaced, Busy
  <2>5. \/ /\ InQ(m_pendingEvents)' = InQ(m_pendingEvents) \cup {event[p]}
           /\ InQ(m_idleEvents)' = InQ(m_idleEvents)
        \/ /\ InQ(m_idleEvents)' = InQ(m_idleEvents) \cup {event[p]}
           /\ InQ(m_pendingEvents)' = InQ(m_pendingEvents)
           /\ event[p].kind = "idle"
    <3>1. CASE ForIdleTime(p)
      BY <1>4, <2>1, <3>1, AppendFacts DEF Push, ForIdleTime, TypeOK
    <3>2. CASE ~ForIdleTime(p)
      BY <1>4, <2>1, <3>2, AppendFacts DEF Push, TypeOK
    <3>3. QED
      BY <3>1, <3>2
  <2>6. /\ event[p].sync => Awaited(event[p])'
        /\ event[p].kind = "scope" => event[p].sync
        /\ event[p].kind = "idle" => ~event[p].sync /\ event[p].kind # "scope"
    BY <2>1 DEF Awaited, Waited
  <2>7. QED
    BY <2>1, <2>2, <2>3, <2>4, <2>5, <2>6 DEF OwnersWait
<1>5. ASSUME NEW p \in Posters, Returned(p) PROVE OwnersWait'
  <2>1. /\ pc[p] = "wait" /\ m_sync[p] # "none"
        /\ UNCHANGED <<m_pendingEvents, m_idleEvents, cur, xpc, m_mtx_resume>>
        /\ inScope'[p] = (IF event[p].kind = "scope" /\ m_sync[p] = "ok"
                          THEN event[p] ELSE NoEvent)
        /\ \A q \in Posters : q # p =>
             /\ pc'[q] = pc[q] /\ event'[q] = event[q] /\ m_sync'[q] = m_sync[q]
             /\ inScope'[q] = inScope[q]
    BY <1>5 DEF Returned, TypeOK, Go, queueVars, execVars
  <2>2. \A e \in Event : Awaited(e) => Awaited(e)'
    BY <2>1, EventFields DEF Awaited
  <2>3. cur # NoEvent => cur \in Event /\ cur.by \in Posters
    BY EventFields DEF TypeOK
  <2>4. /\ InQ(m_pendingEvents) \subseteq Event
        /\ xpc \in {"hold", "unlock"} => cur # NoEvent /\ cur.kind = "scope"
    BY InQEvents DEF TypeOK, CurPlaced, Busy, OfScope
  <2>5. inScope[p] = NoEvent
    BY <2>1 DEF PosterPlaced, PosterAt
  <2>6. xpc = "hold" =>
          \/ pc'[cur.by] = "wait" /\ event'[cur.by] = cur /\ m_sync'[cur.by] = "ok"
          \/ inScope'[cur.by] = cur
    BY <2>1, <2>3, <2>4, <2>5 DEF OwnersWait
  <2>7. xpc = "unlock" => cur.by # p
    BY <2>1 DEF OwnersWait
  <2>8. QED
    BY <2>1, <2>2, <2>3, <2>4, <2>6, <2>7 DEF OwnersWait
<1>6. ASSUME NEW p \in Posters, NEW how \in {"allow", "skip"}, LeaveScope(p, how) PROVE OwnersWait'
  BY <1>6 DEF LeaveScope, OwnersWait, Awaited, CurPlaced, Busy, OfScope,
     PosterPlaced, PosterAt, TypeOK, Go, XGo, queueVars, execVars,
     posterVars, syncVars
<1>7. ASSUME NEW p \in Posters, ScopeLeft(p) PROVE OwnersWait'
  BY <1>7 DEF ScopeLeft, OwnersWait, Awaited, CurPlaced, Busy, OfScope,
     PosterPlaced, PosterAt, TypeOK, Go, XGo, queueVars, execVars,
     posterVars, syncVars
<1>8. ASSUME NEW p \in Posters, ShutdownSet(p) PROVE OwnersWait'
  BY <1>8 DEF ShutdownSet, OwnersWait, Awaited, CurPlaced, Busy, OfScope,
     PosterPlaced, PosterAt, TypeOK, Go, XGo, queueVars, execVars,
     posterVars, syncVars
<1>9. ASSUME NEW p \in Posters, ShutdownWake(p) PROVE OwnersWait'
  BY <1>9 DEF ShutdownWake, OwnersWait, Awaited, CurPlaced, Busy, OfScope,
     PosterPlaced, PosterAt, TypeOK, Go, XGo, queueVars, execVars,
     posterVars, syncVars
<1>10. ASSUME NEW p \in Posters, ShutdownJoin(p) PROVE OwnersWait'
  BY <1>10 DEF ShutdownJoin, OwnersWait, Awaited, CurPlaced, Busy, OfScope,
     PosterPlaced, PosterAt, TypeOK, Go, XGo, queueVars, execVars,
     posterVars, syncVars
<1>11. ASSUME Take PROVE OwnersWait'
  <2>1. PICK e : e = Head(Queue(xpc))
    OBVIOUS
  <2>2. /\ e \in Event /\ e # NoEvent /\ cur = NoEvent /\ e.by \in Posters
        /\ e \in InQ(m_pendingEvents) \cup InQ(m_idleEvents)
        /\ InQ(m_pendingEvents)' \subseteq InQ(m_pendingEvents) \ {e}
        /\ InQ(m_idleEvents)' \subseteq InQ(m_idleEvents) \ {e}
        /\ UNCHANGED <<pc, event, inScope, m_mtx_resume>>
    BY <1>11, <2>1, TakeQueues DEF LiveInv, posterVars, Take
  <2>3. /\ e.sync => Awaited(e)
        /\ e.kind = "scope" => e.sync
    BY <2>2 DEF OwnersWait
  <2>4. InQ(m_pendingEvents) \subseteq Event
    BY InQEvents DEF TypeOK
  <2>5. CASE Runs(e)
    <3>1. /\ cur' = e /\ UNCHANGED m_sync
          /\ xpc' = (IF e.kind = "scope" THEN "enter" ELSE "run")
      BY <1>11, <2>1, <2>5 DEF Take, XGo
    <3>2. QED
      BY <1>11, <2>2, <2>3, <2>4, <3>1 DEF Take, OwnersWait, Awaited
  <2>6. CASE ~Runs(e)
    <3>1. /\ cur' = NoEvent /\ xpc' = xpc /\ xpc \in {"idle", "pending"}
          /\ \A q \in Posters : (q = e.by /\ e.sync) \/ m_sync'[q] = m_sync[q]
      BY <1>11, <2>1, <2>2, <2>6 DEF Take, PostResult, TypeOK
    <3>2. ASSUME NEW f \in InQ(m_pendingEvents)', f.sync PROVE Awaited(f)'
      BY <2>2, <2>3, <2>4, <3>1, <3>2, EventFields DEF OwnersWait, Awaited
    <3>3. QED
      BY <2>2, <2>3, <3>1, <3>2 DEF OwnersWait
  <2>7. QED
    BY <2>5, <2>6
<1>12. ASSUME Drained PROVE OwnersWait'
  BY <1>12 DEF Drained, Queue, OwnersWait, Awaited, CurPlaced, Busy, OfScope,
     PosterPlaced, PosterAt, TypeOK, Go, XGo, queueVars, execVars,
     posterVars, syncVars
<1>13. ASSUME Wake PROVE OwnersWait'
  BY <1>13 DEF Wake, OwnersWait, Awaited, CurPlaced, Busy, OfScope,
     PosterPlaced, PosterAt, TypeOK, Go, XGo, queueVars, execVars,
     posterVars, syncVars
<1>14. ASSUME TestShutdown PROVE OwnersWait'
  BY <1>14 DEF TestShutdown, OwnersWait, Awaited, CurPlaced, Busy, OfScope,
     PosterPlaced, PosterAt, TypeOK, Go, XGo, queueVars, execVars,
     posterVars, syncVars
<1>15. ASSUME Invoke PROVE OwnersWait'
  BY <1>15 DEF Invoke, CoreAfter, OwnersWait, Awaited, CurPlaced, Busy,
     OfScope, PosterPlaced, PosterAt, TypeOK, Go, XGo, queueVars, execVars,
     posterVars, syncVars
<1>16. ASSUME CleanupEvent PROVE OwnersWait'
  <2>1. /\ cur \in Event /\ cur # NoEvent /\ cur.by \in Posters
        /\ xpc = "finish" /\ (cur.sync => Awaited(cur))
    BY <1>16, CurIsEvent DEF CleanupEvent, Busy, OwnersWait
  <2>2. /\ cur' = NoEvent /\ xpc' \in {"pending", "idle"}
        /\ UNCHANGED <<m_pendingEvents, m_idleEvents, pc, event, inScope,
                       m_mtx_resume>>
        /\ \A q \in Posters : (q = cur.by /\ cur.sync) \/ m_sync'[q] = m_sync[q]
    BY <1>16, <2>1 DEF CleanupEvent, PostResult, TypeOK, XGo, queueVars,
       posterVars
  <2>3. InQ(m_pendingEvents) \subseteq Event /\ cur \notin InQ(m_pendingEvents)
    BY InQEvents DEF TypeOK, LiveInv, LiveApart
  <2>4. ASSUME NEW f \in InQ(m_pendingEvents), f.sync PROVE Awaited(f)'
    BY <2>1, <2>2, <2>3, <2>4, EventFields DEF OwnersWait, Awaited
  <2>5. QED
    BY <2>1, <2>2, <2>4 DEF OwnersWait
<1>17. ASSUME EnterScope PROVE OwnersWait'
  BY <1>17 DEF EnterScope, OwnersWait, Awaited, CurPlaced, Busy, OfScope,
     PosterPlaced, PosterAt, TypeOK, Go, XGo, queueVars, execVars,
     posterVars, syncVars
<1>18. ASSUME LockResume PROVE OwnersWait'
  BY <1>18 DEF LockResume, OwnersWait, Awaited, CurPlaced, Busy, OfScope,
     PosterPlaced, PosterAt, TypeOK, Go, XGo, queueVars, execVars,
     posterVars, syncVars
<1>19. ASSUME ScopeThrows PROVE OwnersWait'
  BY <1>19 DEF ScopeThrows, OwnersWait, Awaited, CurPlaced, Busy, OfScope,
     PosterPlaced, PosterAt, TypeOK, Go, XGo, queueVars, execVars,
     posterVars, syncVars
<1>20. ASSUME PostScope PROVE OwnersWait'
  <2>1. /\ cur \in Event /\ cur # NoEvent /\ cur.by \in Posters
        /\ xpc = "post" /\ cur.sync /\ Awaited(cur)
    BY <1>20, CurIsEvent DEF PostScope, Busy, OwnersWait
  <2>2. /\ xpc' = "hold" /\ m_sync' = [m_sync EXCEPT ![cur.by] = "ok"]
        /\ UNCHANGED <<m_pendingEvents, m_idleEvents, cur, pc, event, inScope,
                       m_mtx_resume>>
    BY <1>20, <2>1 DEF PostScope, PostResult, XGo, queueVars, posterVars
  <2>3. InQ(m_pendingEvents) \subseteq Event /\ cur \notin InQ(m_pendingEvents)
    BY InQEvents DEF TypeOK, LiveInv, LiveApart
  <2>4. ASSUME NEW f \in InQ(m_pendingEvents), f.sync PROVE Awaited(f)'
    BY <2>1, <2>2, <2>3, <2>4, EventFields DEF OwnersWait, Awaited, TypeOK
  <2>5. QED
    BY <2>1, <2>2, <2>4 DEF OwnersWait, Awaited, TypeOK
<1>21. ASSUME HoldEnds PROVE OwnersWait'
  <2>1. /\ cur \in Event /\ cur.by \in Posters /\ cur # NoEvent /\ xpc = "hold"
        /\ cur' # NoEvent /\ SameId(cur', cur) /\ ~cur'.sync
    BY <1>21, HoldFacts, CurIsEvent DEF HoldEnds, Busy
  <2>2. /\ xpc' = "unlock"
        /\ UNCHANGED <<m_pendingEvents, m_idleEvents, pc, event, inScope, m_sync,
                       m_mtx_resume>>
        /\ m_sync_resume[cur.by] # "none"
    BY <1>21 DEF HoldEnds, XGo, queueVars, posterVars
  <2>3. pc[cur.by] = "leave" /\ inScope[cur.by] = cur
    BY <2>1, <2>2 DEF PosterPlaced, PosterAt, OwnersWait
  <2>4. QED
    BY <2>1, <2>2, <2>3 DEF OwnersWait, Awaited, SameId
<1>22. ASSUME UnlockResume PROVE OwnersWait'
  BY <1>22 DEF UnlockResume, OwnersWait, Awaited, CurPlaced, Busy, OfScope,
     PosterPlaced, PosterAt, TypeOK, Go, XGo, queueVars, execVars,
     posterVars, syncVars
<1>23. ASSUME DoResume PROVE OwnersWait'
  BY <1>23 DEF DoResume, OwnersWait, Awaited, CurPlaced, Busy, OfScope,
     PosterPlaced, PosterAt, TypeOK, Go, XGo, queueVars, execVars,
     posterVars, syncVars
<1>24. QED
  BY <1>1, <1>2, <1>3, <1>4, <1>5, <1>6, <1>7, <1>8, <1>9, <1>10, <1>11,
     <1>12, <1>13, <1>14, <1>15, <1>16, <1>17, <1>18, <1>19, <1>20, <1>21,
     <1>22, <1>23
     DEF Next, ExecutorNext, Chooses, Proceeds

\* What has been granted.
LEMMA GrantedStep ==
  ASSUME TypeOK, CurPlaced, PosterPlaced, LiveInv, OwnersWait, Granted, Next
  PROVE  Granted'
<1>1. ASSUME NEW p \in Posters, NEW k \in Kinds[p], Begin(p, k) PROVE Granted'
  BY <1>1 DEF Begin, Granted, Holds, OwnersWait, Awaited, CurPlaced, Busy,
     PosterPlaced, PosterAt, TypeOK, Go, XGo, queueVars, execVars,
     posterVars, syncVars
<1>2. ASSUME NEW p \in Posters, ShutdownQueue(p) \/ ShutdownTest(p)
      PROVE Granted'
  <2>1. CASE ShutdownQueue(p)
    BY <2>1 DEF ShutdownQueue, Granted, Holds, OwnersWait, Awaited, CurPlaced,
       Busy, PosterPlaced, PosterAt, TypeOK, Go, XGo, queueVars, execVars,
       posterVars, syncVars
  <2>2. CASE ShutdownTest(p)
    BY <2>2 DEF ShutdownTest, Granted, Holds, OwnersWait, Awaited, CurPlaced,
       Busy, PosterPlaced, PosterAt, TypeOK, Go, XGo, queueVars, execVars,
       posterVars, syncVars
  <2> QED BY <1>2, <2>1, <2>2
<1>3. ASSUME NEW p \in Posters, TestQuitting(p) PROVE Granted'
  <2>1. /\ pc[p] = "test" /\ event[p] \in Event /\ event[p].by = p
        /\ event[p].n \in 1..MaxEvents
        /\ UNCHANGED <<cur, xpc, inScope, running, m_Quitting>>
        /\ \A q \in Posters : q # p =>
             /\ pc'[q] = pc[q] /\ event'[q] = event[q] /\ m_sync'[q] = m_sync[q]
    BY <1>3, EventFields
       DEF TestQuitting, PostResult, Posted, PosterPlaced, PosterAt, TypeOK, Go,
           queueVars, execVars
  <2>2. CASE ~m_Quitting
    BY <1>3, <2>1, <2>2 DEF TestQuitting, Granted, Holds, TypeOK, Go
  <2>3. CASE m_Quitting
    <3>1. /\ fate'[p][event[p].n] = "refused"
          /\ \A q \in Posters : \A n \in 1..MaxEvents :
               q # p \/ n # event[p].n => fate'[q][n] = fate[q][n]
      BY <1>3, <2>1, <2>3, EndChanges DEF TestQuitting
    <3>2. /\ pc'[p] = "wait" => event'[p] = event[p]
          /\ pc'[p] # "leave"
      BY <1>3, <2>1, <2>3 DEF TestQuitting, Posted, TypeOK, Go
    <3>3. \A q \in Posters : /\ event[q] # NoEvent => event[q].n \in 1..MaxEvents
                             /\ inScope[q] # NoEvent => inScope[q].n \in 1..MaxEvents
      BY EventFields DEF TypeOK
    <3>4. \A q \in Posters : Holds(q)' => Holds(q)
      BY <2>1, <3>1, <3>3 DEF Holds
    <3>5. ASSUME NEW q \in Posters, pc'[q] = "wait", m_sync'[q] = "ok"
          PROVE  LET e == event'[q]
                 IN  \/ fate'[q][e.n] = "done" /\ e.kind # "scope"
                     \/ fate'[q][e.n] = "refused" /\ m_Quitting'
                     \/ e.kind = "scope" /\ xpc' = "hold" /\ cur' = e
      <4>1. CASE q = p
        BY <2>1, <2>3, <3>1, <3>2, <3>5, <4>1
      <4>2. CASE q # p
        <5>1. event[q] # NoEvent
          BY <2>1, <3>5, <4>2 DEF PosterPlaced, PosterAt
        <5>2. QED
          BY <2>1, <3>1, <3>3, <3>5, <4>2, <5>1 DEF Granted
      <4>3. QED
        BY <4>1, <4>2
    <3>6. QED
      BY <2>1, <3>4, <3>5 DEF Granted
  <2>4. QED
    BY <2>2, <2>3
<1>4. ASSUME NEW p \in Posters, Push(p) PROVE Granted'
  <2>1. /\ pc[p] = "push" /\ m_sync[p] = "none"
        /\ UNCHANGED <<m_Quitting, cur, xpc, inScope, running, m_sync, fate>>
        /\ \A q \in Posters : q # p => pc'[q] = pc[q] /\ event'[q] = event[q]
    BY <1>4 DEF Push, Posted, PosterPlaced, PosterAt, TypeOK, Go, execVars,
       syncVars
  <2>2. \A q \in Posters : Holds(q)' <=> Holds(q)
    BY <2>1 DEF Holds
  <2>3. QED
    BY <2>1, <2>2 DEF Granted
<1>5. ASSUME NEW p \in Posters, Returned(p) PROVE Granted'
  BY <1>5 DEF Returned, Granted, Holds, OwnersWait, Awaited, CurPlaced, Busy,
     PosterPlaced, PosterAt, TypeOK, Go, XGo, queueVars, execVars,
     posterVars, syncVars
<1>6. ASSUME NEW p \in Posters, NEW how \in {"allow", "skip"}, LeaveScope(p, how) PROVE Granted'
  BY <1>6 DEF LeaveScope, Granted, Holds, OwnersWait, Awaited, CurPlaced,
     Busy, PosterPlaced, PosterAt, TypeOK, Go, XGo, queueVars, execVars,
     posterVars, syncVars
<1>7. ASSUME NEW p \in Posters, ScopeLeft(p) PROVE Granted'
  BY <1>7 DEF ScopeLeft, Granted, Holds, OwnersWait, Awaited, CurPlaced,
     Busy, PosterPlaced, PosterAt, TypeOK, Go, XGo, queueVars, execVars,
     posterVars, syncVars
<1>8. ASSUME NEW p \in Posters, ShutdownSet(p) PROVE Granted'
  BY <1>8 DEF ShutdownSet, Granted, Holds, OwnersWait, Awaited, CurPlaced,
     Busy, PosterPlaced, PosterAt, TypeOK, Go, XGo, queueVars, execVars,
     posterVars, syncVars
<1>9. ASSUME NEW p \in Posters, ShutdownWake(p) PROVE Granted'
  BY <1>9 DEF ShutdownWake, Granted, Holds, OwnersWait, Awaited, CurPlaced,
     Busy, PosterPlaced, PosterAt, TypeOK, Go, XGo, queueVars, execVars,
     posterVars, syncVars
<1>10. ASSUME NEW p \in Posters, ShutdownJoin(p) PROVE Granted'
  BY <1>10 DEF ShutdownJoin, Granted, Holds, OwnersWait, Awaited, CurPlaced,
     Busy, PosterPlaced, PosterAt, TypeOK, Go, XGo, queueVars, execVars,
     posterVars, syncVars
<1>11. ASSUME Take PROVE Granted'
  <2>1. PICK e : e = Head(Queue(xpc))
    OBVIOUS
  <2>2. /\ e \in Event /\ e.by \in Posters /\ e.n \in 1..MaxEvents
        /\ e \in InQ(m_pendingEvents) \cup InQ(m_idleEvents)
        /\ xpc \in {"idle", "pending"}
        /\ UNCHANGED <<m_Quitting, pc, event, inScope, running>>
    BY <1>11, <2>1, TakeQueues, EventFields DEF LiveInv, posterVars, Take
  <2>3. e.sync => Awaited(e)
    BY <2>2 DEF OwnersWait
  <2>4. xpc' \notin {"lock", "post", "hold", "unlock"}
    BY <1>11, <2>2 DEF Take, XGo
  <2>5. CASE Runs(e)
    <3>1. UNCHANGED <<m_sync, fate>>
      BY <1>11, <2>1, <2>5 DEF Take
    <3>2. QED
      BY <2>2, <2>4, <3>1 DEF Granted, Holds
  <2>6. CASE ~Runs(e)
    <3>1. /\ m_Quitting /\ Ends(e, "refused")
          /\ \A q \in Posters : (q = e.by /\ e.sync) \/ m_sync'[q] = m_sync[q]
      BY <1>11, <2>1, <2>2, <2>6 DEF Take, Runs, PostResult, TypeOK
    <3>2. /\ fate'[e.by][e.n] = "refused"
          /\ \A q \in Posters : \A n \in 1..MaxEvents :
               q # e.by \/ n # e.n => fate'[q][n] = fate[q][n]
      BY <2>2, <3>1, EndChanges
    <3>3. fate[e.by][e.n] = "none"
      BY <2>2 DEF LiveInv, LiveUntold, IsLive
    <3>4. \A q \in Posters : /\ event[q] # NoEvent => event[q].n \in 1..MaxEvents
                             /\ inScope[q] # NoEvent => inScope[q].n \in 1..MaxEvents
      BY EventFields DEF TypeOK
    <3>5. \A q \in Posters : Holds(q)' => Holds(q)
      BY <2>2, <3>2, <3>4 DEF Holds
    <3>6. ASSUME NEW q \in Posters, pc[q] = "wait", m_sync'[q] = "ok"
          PROVE  LET f == event[q]
                 IN  \/ fate'[q][f.n] = "done" /\ f.kind # "scope"
                     \/ fate'[q][f.n] = "refused" /\ m_Quitting'
      <4>1. event[q] # NoEvent
        BY <3>6 DEF PosterPlaced, PosterAt
      <4>2. CASE q = e.by /\ e.sync
        BY <2>2, <2>3, <3>1, <3>2, <4>2 DEF Awaited
      <4>3. CASE ~(q = e.by /\ e.sync)
        BY <2>2, <3>1, <3>2, <3>3, <3>4, <3>6, <4>1, <4>3 DEF Granted
      <4>4. QED
        BY <4>2, <4>3
    <3>7. QED
      BY <2>2, <2>4, <3>5, <3>6 DEF Granted
  <2>7. QED
    BY <2>5, <2>6
<1>12. ASSUME Drained PROVE Granted'
  BY <1>12 DEF Drained, Queue, Granted, Holds, OwnersWait, Awaited,
     CurPlaced, Busy, PosterPlaced, PosterAt, TypeOK, Go, XGo, queueVars,
     execVars, posterVars, syncVars
<1>13. ASSUME Wake PROVE Granted'
  BY <1>13 DEF Wake, Granted, Holds, OwnersWait, Awaited, CurPlaced, Busy,
     PosterPlaced, PosterAt, TypeOK, Go, XGo, queueVars, execVars,
     posterVars, syncVars
<1>14. ASSUME TestShutdown PROVE Granted'
  BY <1>14 DEF TestShutdown, Granted, Holds, OwnersWait, Awaited, CurPlaced,
     Busy, PosterPlaced, PosterAt, TypeOK, Go, XGo, queueVars, execVars,
     posterVars, syncVars
<1>15. ASSUME Invoke PROVE Granted'
  BY <1>15 DEF Invoke, CoreAfter, Granted, Holds, OwnersWait, Awaited,
     CurPlaced, Busy, PosterPlaced, PosterAt, TypeOK, Go, XGo, queueVars,
     execVars, posterVars, syncVars
<1>16. ASSUME CleanupEvent PROVE Granted'
  <2>1. /\ cur \in Event /\ cur.by \in Posters /\ cur.n \in 1..MaxEvents
        /\ xpc = "finish" /\ (cur.sync => Awaited(cur)) /\ Ends(cur, "done")
        /\ fate[cur.by][cur.n] = "none"
    BY <1>16, CurIsEvent, EventFields
       DEF CleanupEvent, Busy, OwnersWait, LiveInv, LiveUntold, IsLive
  <2>2. /\ xpc' \in {"pending", "idle"}
        /\ UNCHANGED <<m_Quitting, pc, event, inScope>>
        /\ \A q \in Posters : \/ m_sync'[q] = m_sync[q]
                               \/ /\ q = cur.by /\ cur.sync
                                  /\ m_sync'[q] = "ok" => cur.kind # "scope"
    BY <1>16, <2>1 DEF CleanupEvent, PostResult, TypeOK, XGo, queueVars,
       posterVars
  <2>3. /\ fate'[cur.by][cur.n] = "done"
        /\ \A q \in Posters : \A n \in 1..MaxEvents :
             q # cur.by \/ n # cur.n => fate'[q][n] = fate[q][n]
    BY <2>1, EndChanges
  <2>4. \A q \in Posters : /\ event[q] # NoEvent => event[q].n \in 1..MaxEvents
                           /\ inScope[q] # NoEvent => inScope[q].n \in 1..MaxEvents
    BY EventFields DEF TypeOK
  <2>5. \A q \in Posters : Holds(q)' => Holds(q)
    BY <2>1, <2>2, <2>3, <2>4 DEF Holds
  <2>6. ASSUME NEW q \in Posters, pc[q] = "wait", m_sync'[q] = "ok"
        PROVE  LET f == event[q]
               IN  \/ fate'[q][f.n] = "done" /\ f.kind # "scope"
                   \/ fate'[q][f.n] = "refused" /\ m_Quitting'
    <3>1. event[q] # NoEvent
      BY <2>6 DEF PosterPlaced, PosterAt
    <3>2. CASE m_sync'[q] = m_sync[q]
      BY <2>1, <2>2, <2>3, <2>4, <2>6, <3>1, <3>2 DEF Granted
    <3>3. CASE m_sync'[q] # m_sync[q]
      BY <2>1, <2>2, <2>3, <2>6, <3>3 DEF Awaited
    <3>4. QED
      BY <3>2, <3>3
  <2>7. QED
    BY <2>1, <2>2, <2>5, <2>6 DEF Granted
<1>17. ASSUME EnterScope PROVE Granted'
  BY <1>17 DEF EnterScope, Granted, Holds, OwnersWait, Awaited, CurPlaced,
     Busy, PosterPlaced, PosterAt, TypeOK, Go, XGo, queueVars, execVars,
     posterVars, syncVars
<1>18. ASSUME LockResume PROVE Granted'
  BY <1>18 DEF LockResume, Granted, Holds, OwnersWait, Awaited, CurPlaced,
     Busy, PosterPlaced, PosterAt, TypeOK, Go, XGo, queueVars, execVars,
     posterVars, syncVars
<1>19. ASSUME ScopeThrows PROVE Granted'
  BY <1>19 DEF ScopeThrows, Granted, Holds, OwnersWait, Awaited, CurPlaced,
     Busy, PosterPlaced, PosterAt, TypeOK, Go, XGo, queueVars, execVars,
     posterVars, syncVars
<1>20. ASSUME PostScope PROVE Granted'
  <2>1. /\ cur \in Event /\ cur.by \in Posters /\ cur.kind = "scope"
        /\ xpc = "post" /\ cur.sync /\ Awaited(cur)
    BY <1>20, CurIsEvent DEF PostScope, Busy, OfScope, CurPlaced, OwnersWait
  <2>2. /\ xpc' = "hold" /\ m_sync' = [m_sync EXCEPT ![cur.by] = "ok"]
        /\ UNCHANGED <<m_Quitting, cur, pc, event, inScope, running, fate>>
    BY <1>20, <2>1 DEF PostScope, PostResult, XGo, queueVars, posterVars
  <2>3. \A q \in Posters : Holds(q)' <=> Holds(q)
    BY <2>2 DEF Holds
  <2>4. \A q \in Posters : Holds(q) => pc[q] = "leave"
    BY <2>1 DEF Granted
  <2>5. QED
    BY <2>1, <2>2, <2>3, <2>4 DEF Granted, Awaited, TypeOK
<1>21. ASSUME HoldEnds PROVE Granted'
  BY <1>21 DEF HoldEnds, Granted, Holds, OwnersWait, Awaited, CurPlaced,
     Busy, PosterPlaced, PosterAt, TypeOK, Go, XGo, queueVars, execVars,
     posterVars, syncVars
<1>22. ASSUME UnlockResume PROVE Granted'
  BY <1>22 DEF UnlockResume, Granted, Holds, OwnersWait, Awaited, CurPlaced,
     Busy, PosterPlaced, PosterAt, TypeOK, Go, XGo, queueVars, execVars,
     posterVars, syncVars
<1>23. ASSUME DoResume PROVE Granted'
  BY <1>23 DEF DoResume, Granted, Holds, OwnersWait, Awaited, CurPlaced,
     Busy, PosterPlaced, PosterAt, TypeOK, Go, XGo, queueVars, execVars,
     posterVars, syncVars
<1>24. QED
  BY <1>1, <1>2, <1>3, <1>4, <1>5, <1>6, <1>7, <1>8, <1>9, <1>10, <1>11,
     <1>12, <1>13, <1>14, <1>15, <1>16, <1>17, <1>18, <1>19, <1>20, <1>21,
     <1>22, <1>23
     DEF Next, ExecutorNext, Chooses, Proceeds

-----------------------------------------------------------------------------
(* The invariant, and what follows from it *)
LEMMA InitInv == Init => IInv
<1> SUFFICES ASSUME Init PROVE IInv
  OBVIOUS
<1>1. InQ(<<>>) = {} /\ NoDup(<<>>)
  BY DEF InQ, NoDup
<1>2. NoEvent \notin Event
  BY NoEventApart
<1>3. TypeOK
  <2>1. m_pendingEvents \in Seq(Event) /\ m_idleEvents \in Seq(Event)
    BY DEF Init
  <2>2. /\ pc \in [Posters -> PPlaces]
        /\ event \in [Posters -> Event \cup {NoEvent}]
        /\ inScope \in [Posters -> Event \cup {NoEvent}]
    BY DEF Init, PPlaces
  <2>3. /\ m_sync \in [Posters -> {"none", "ok", "failed"}]
        /\ m_sync_resume \in [Posters -> {"none", "allow", "skip"}]
        /\ m_mtx_resume \in [Posters -> BOOLEAN]
    BY DEF Init
  <2>4. /\ posted \in [Posters -> 0..MaxEvents]
        /\ fate \in [Posters -> [1..MaxEvents -> {"none", "done", "refused"}]]
    BY ExecutorAssumption DEF Init
  <2>5. QED
    BY <2>1, <2>2, <2>3, <2>4 DEF Init, TypeOK, XPlaces
<1>4. CurPlaced
  BY DEF Init, CurPlaced, Busy, OfScope
<1>5. PosterPlaced
  BY DEF Init, PosterPlaced, PosterAt
<1>6. \A e : ~IsLive(e)
  BY <1>1 DEF Init, IsLive, Fresh
<1>7. LiveApart
  BY <1>1, <1>6 DEF Init, LiveApart, Fresh
<1>8. LiveUntold
  BY <1>6 DEF Init, LiveUntold
<1>9. OwnersWait
  BY <1>1 DEF Init, OwnersWait
<1>10. Granted
  BY DEF Init, Granted, Holds
<1>11. ToBeSeen
  BY DEF Init, ToBeSeen
<1>12. QED
  BY <1>3, <1>4, <1>5, <1>7, <1>8, <1>9, <1>10, <1>11 DEF IInv

LEMMA StutterInv == IInv /\ UNCHANGED vars => IInv'
<1> SUFFICES ASSUME IInv, UNCHANGED vars PROVE IInv'
  OBVIOUS
<1> USE DEF vars, queueVars, execVars, posterVars, syncVars
<1>1. TypeOK' /\ CurPlaced' /\ ToBeSeen'
  BY DEF IInv, TypeOK, CurPlaced, ToBeSeen
<1>2. PosterPlaced'
  BY DEF IInv, PosterPlaced, PosterAt
<1>3. LiveKept
  BY DEF LiveKept, Fresh
<1>4. LiveApart' /\ LiveUntold'
  BY <1>3, KeptApart, KeptLive, AddedUntold DEF IInv
<1>5. OwnersWait'
  BY DEF IInv, OwnersWait, Awaited
<1>6. Granted'
  BY DEF IInv, Granted, Holds
<1>7. QED
  BY <1>1, <1>2, <1>4, <1>5, <1>6 DEF IInv

LEMMA StepInv == IInv /\ [Next]_vars => IInv'
<1> SUFFICES ASSUME IInv, [Next]_vars PROVE IInv'
  OBVIOUS
<1>1. CASE Next
  <2>1. /\ TypeOK /\ CurPlaced /\ PosterPlaced /\ LiveInv /\ OwnersWait
        /\ Granted /\ ToBeSeen
    BY DEF IInv, LiveInv
  <2>2. TypeOK' /\ CurPlaced' /\ ToBeSeen'
    BY <1>1, <2>1, TypeStep, CurPlacedStep, ToBeSeenStep
  <2>3. PosterPlaced' /\ LiveInv'
    BY <1>1, <2>1, PosterPlacedStep, LiveStep
  <2>4. OwnersWait' /\ Granted'
    BY <1>1, <2>1, OwnersStep, GrantedStep
  <2>5. QED
    BY <2>2, <2>3, <2>4 DEF IInv, LiveInv
<1>2. CASE UNCHANGED vars
  BY <1>2, StutterInv
<1>3. QED
  BY <1>1, <1>2

LEMMA Invariance == Spec => []IInv
BY InitInv, StepInv, PTL DEF Spec

\* Every variable keeps its type, for any threads and any events they post.
THEOREM ExecutorTypeCorrect == Spec => []TypeOK
<1>1. IInv => TypeOK
  BY DEF IInv
<1>2. QED
  BY <1>1, Invariance, PTL

\* No wakeup is lost: one post of m_wakeup for the first event of a queue is
\* enough, and an idle event may do without, because the executor that has not
\* seen the queue yet is either about to look at it or has a post to take.
THEOREM NoEventOverlooked == Spec => []WokenForWork
<1>1. IInv => WokenForWork
  BY DEF IInv, ToBeSeen, CurPlaced, Busy, WokenForWork
<1>2. QED
  BY <1>1, Invariance, PTL

\* PostResult is called for an event only once it has been executed, is being
\* held for its caller, or has been refused at the shutdown.
THEOREM AnswersAreTrue == Spec => []AnswerMeansDone
<1>1. IInv => AnswerMeansDone
  BY DEF IInv, Granted, AnswerMeansDone
<1>2. QED
  BY <1>1, Invariance, PTL

\* While a thread is in its scope no event runs the core, and the executor
\* never uses an object of a stack frame that is gone: _post_and_wait takes
\* m_mtx_resume before it answers, and nulls m_sync before it lets go.
THEOREM ScopesAreSafe == Spec => []ScopesHold
<1>1. IInv => CoreHeld
  BY DEF IInv, Granted, CoreHeld
<1>2. IInv => ObjectsAlive
  <2> SUFFICES ASSUME IInv PROVE ObjectsAlive
    OBVIOUS
  <2>1. OwnersWait /\ CurPlaced
    BY DEF IInv
  <2>2. xpc \in {"lock", "post"} =>
          pc[cur.by] = "wait" /\ event[cur.by] = cur
    BY <2>1 DEF OwnersWait, CurPlaced, Busy, Awaited
  <2>3. xpc = "hold" =>
          \/ pc[cur.by] = "wait" /\ event[cur.by] = cur
          \/ inScope[cur.by] = cur /\ cur # NoEvent
    BY <2>1 DEF OwnersWait, CurPlaced, Busy
  <2>4. xpc = "unlock" =>
          inScope[cur.by] # NoEvent /\ inScope[cur.by].n = cur.n
    BY <2>1 DEF OwnersWait
  <2>5. xpc \in {"run", "finish"} /\ cur.sync =>
          pc[cur.by] = "wait" /\ event[cur.by] = cur
    BY <2>1 DEF OwnersWait, CurPlaced, Busy, Awaited
  <2>6. QED
    BY <2>2, <2>3, <2>4, <2>5 DEF ObjectsAlive
<1>3. IInv => ScopesHold
  BY <1>1, <1>2 DEF ScopesHold
<1>4. QED
  BY <1>3, Invariance, PTL

-----------------------------------------------------------------------------
(* The executor implements the task queue *)

AllTasks == [by : Posters, n : 1..MaxEvents, kind : AllKinds]

LEMMA TaskFacts ==
  ASSUME NEW e \in Event
  PROVE  /\ Task(e) \in AllTasks /\ Task(e) # NoEvent
         /\ IsIdle(Task(e)) = IsIdle(e) /\ IsCritical(Task(e)) = (e.kind \in Critical)
         /\ TaskId(Task(e)) = <<e.by, e.n>>
         /\ Task(e).kind = e.kind
<1>1. Task(e) \in AllTasks /\ Task(e).kind = e.kind
  BY EventFields DEF Task, AllTasks
<1>2. Task(e) # NoEvent
  BY <1>1, EventFields DEF NoEvent, AllKinds
<1>3. QED
  BY <1>1, <1>2 DEF Task, IsIdle, IsCritical, TaskId

\* Two sequences are one if they agree everywhere.
LEMMA SameSeq ==
  ASSUME NEW S, NEW s \in Seq(S), NEW t \in Seq(S), Len(s) = Len(t),
         \A i \in 1..Len(s) : s[i] = t[i]
  PROVE  s = t
OBVIOUS

LEMMA TasksOfFacts ==
  ASSUME NEW q \in Seq(Event)
  PROVE  /\ TasksOf(q) \in Seq(AllTasks) /\ Len(TasksOf(q)) = Len(q)
         /\ \A i \in 1..Len(q) : TasksOf(q)[i] = Task(q[i])
<1>1. \A i \in 1..Len(q) : Task(q[i]) \in AllTasks
  BY TaskFacts
<1>2. QED
  BY <1>1 DEF TasksOf

LEMMA TasksOfAppend ==
  ASSUME NEW q \in Seq(Event), NEW e \in Event
  PROVE  TasksOf(Append(q, e)) = Append(TasksOf(q), Task(e))
<1> DEFINE r == Append(q, e)
           s == TasksOf(q)
<1>1. r \in Seq(Event) /\ Len(r) = Len(q) + 1 /\ r[Len(q) + 1] = e
      /\ \A i \in 1..Len(q) : r[i] = q[i]
  OBVIOUS
<1>2. /\ s \in Seq(AllTasks) /\ Len(s) = Len(q) /\ Task(e) \in AllTasks
      /\ \A i \in 1..Len(q) : s[i] = Task(q[i])
  BY TasksOfFacts, TaskFacts
<1> HIDE DEF r, s
<1>3. /\ TasksOf(r) \in Seq(AllTasks) /\ Len(TasksOf(r)) = Len(r)
      /\ \A i \in 1..Len(r) : TasksOf(r)[i] = Task(r[i])
  BY <1>1, TasksOfFacts
<1>4. /\ Append(s, Task(e)) \in Seq(AllTasks)
      /\ Len(Append(s, Task(e))) = Len(s) + 1
      /\ \A i \in 1..Len(s) : Append(s, Task(e))[i] = s[i]
      /\ Append(s, Task(e))[Len(s) + 1] = Task(e)
  BY <1>2
<1>5. Len(q) \in Nat
  OBVIOUS
<1>6. ASSUME NEW i \in 1..Len(TasksOf(r))
      PROVE  TasksOf(r)[i] = Append(s, Task(e))[i]
  <2>1. CASE i \in 1..Len(q)
    BY <1>1, <1>2, <1>3, <1>4, <2>1
  <2>2. CASE i = Len(q) + 1
    BY <1>1, <1>2, <1>3, <1>4, <1>5, <2>2
  <2>3. i \in 1..Len(q) \/ i = Len(q) + 1
    <3>1. Len(TasksOf(r)) = Len(q) + 1
      BY <1>1, <1>3
    <3>2. i \in 1..(Len(q) + 1)
      BY <3>1
    <3>3. QED
      BY <1>5, <3>2
  <2>4. QED
    BY <2>1, <2>2, <2>3
<1>7. Len(TasksOf(r)) = Len(Append(s, Task(e)))
  BY <1>1, <1>2, <1>3, <1>4
<1>8. TasksOf(r) = Append(s, Task(e))
  BY <1>3, <1>4, <1>6, <1>7, SameSeq
<1>9. QED
  BY <1>8 DEF r, s

LEMMA TasksOfTail ==
  ASSUME NEW q \in Seq(Event), q # <<>>
  PROVE  /\ TasksOf(q) # <<>> /\ Head(TasksOf(q)) = Task(Head(q))
         /\ Tail(TasksOf(q)) = TasksOf(Tail(q))
<1> DEFINE r == Tail(q)
           s == TasksOf(q)
<1>1. r \in Seq(Event) /\ Len(r) = Len(q) - 1 /\ Len(q) \in Nat \ {0}
      /\ \A i \in 1..Len(r) : r[i] = q[i + 1]
  OBVIOUS
<1>2. /\ s \in Seq(AllTasks) /\ Len(s) = Len(q)
      /\ \A i \in 1..Len(q) : s[i] = Task(q[i])
  BY TasksOfFacts
<1>3. Head(q) = q[1]
  OBVIOUS
<1> HIDE DEF r, s
<1>4. /\ TasksOf(r) \in Seq(AllTasks) /\ Len(TasksOf(r)) = Len(r)
      /\ \A i \in 1..Len(r) : TasksOf(r)[i] = Task(r[i])
  BY <1>1, TasksOfFacts
<1>5. /\ s # <<>> /\ Head(s) = s[1] /\ Tail(s) \in Seq(AllTasks)
      /\ Len(Tail(s)) = Len(s) - 1
      /\ \A i \in 1..Len(Tail(s)) : Tail(s)[i] = s[i + 1]
  BY <1>1, <1>2
<1>6. ASSUME NEW i \in 1..Len(Tail(s))
      PROVE  Tail(s)[i] = TasksOf(r)[i]
  <2>1. i \in 1..Len(r) /\ i + 1 \in 1..Len(q)
    BY <1>1, <1>2, <1>5
  <2>2. Tail(s)[i] = Task(q[i + 1])
    BY <1>2, <1>5, <2>1
  <2>3. TasksOf(r)[i] = Task(r[i]) /\ r[i] = q[i + 1]
    BY <1>1, <1>4, <2>1
  <2>4. QED
    BY <2>2, <2>3
<1>7. Tail(s) = TasksOf(r)
  BY <1>1, <1>2, <1>4, <1>5, <1>6, SameSeq
<1>8. QED
  BY <1>1, <1>2, <1>3, <1>5, <1>7 DEF r, s

\* The ordinary events of the queue.
LEMMA OrdinaryFacts ==
  ASSUME NEW q \in Seq(Event)
  PROVE  /\ Ordinary(q) \in Seq(Event) /\ InQ(Ordinary(q)) \subseteq InQ(q)
         /\ ToSet(q) = InQ(q)
<1>1. ToSet(q) = InQ(q)
  BY DEF ToSet, InQ
<1>2. CASE q # <<>> /\ IsIdle(Head(q))
  BY <1>1, <1>2, TailFacts DEF Ordinary
<1>3. CASE ~(q # <<>> /\ IsIdle(Head(q)))
  BY <1>1, <1>3 DEF Ordinary
<1>4. QED
  BY <1>2, <1>3

\* Where idle events may be: first among the pending ones, or on their list.
IdleFirst(q) == \A i \in 2..Len(q) : ~IsIdle(q[i])
IdlePlaced ==
  /\ IdleFirst(m_pendingEvents)
  /\ \A e \in InQ(m_idleEvents) : IsIdle(e)

LEMMA AppendPlaced ==
  ASSUME NEW q \in Seq(Event), NEW e \in Event, IdleFirst(q),
         q = <<>> \/ ~IsIdle(e)
  PROVE  IdleFirst(Append(q, e))
<1> DEFINE r == Append(q, e)
<1>1. Len(r) = Len(q) + 1 /\ r[Len(q) + 1] = e
      /\ \A i \in 1..Len(q) : r[i] = q[i]
  OBVIOUS
<1>2. Len(q) \in Nat /\ (q = <<>> => Len(q) = 0)
  OBVIOUS
<1> HIDE DEF r
<1>3. ASSUME NEW i \in 2..Len(r) PROVE ~IsIdle(r[i])
  <2>1. CASE i \in 2..Len(q)
    BY <1>1, <2>1 DEF IdleFirst
  <2>2. CASE i = Len(q) + 1
    BY <1>1, <1>2, <2>2
  <2>3. QED
    BY <1>1, <1>2, <2>1, <2>2
<1>4. QED
  BY <1>3 DEF IdleFirst, r

LEMMA TailPlaced ==
  ASSUME NEW q \in Seq(Event), q # <<>>, IdleFirst(q)
  PROVE  IdleFirst(Tail(q)) /\ Ordinary(Tail(q)) = Tail(q)
<1> DEFINE r == Tail(q)
<1>1. r \in Seq(Event) /\ Len(r) = Len(q) - 1 /\ Len(q) \in Nat \ {0}
      /\ \A i \in 1..Len(r) : r[i] = q[i + 1]
  OBVIOUS
<1>2. r # <<>> => Len(r) >= 1 /\ Head(r) = r[1]
  OBVIOUS
<1> HIDE DEF r
<1>3. ASSUME NEW i \in 1..Len(r) PROVE ~IsIdle(r[i])
  <2>1. i + 1 \in 2..Len(q) /\ r[i] = q[i + 1]
    BY <1>1
  <2>2. QED
    BY <2>1 DEF IdleFirst
<1>4. IdleFirst(r)
  BY <1>1, <1>3 DEF IdleFirst
<1>5. Ordinary(r) = r
  BY <1>1, <1>2, <1>3 DEF Ordinary
<1>6. QED
  BY <1>4, <1>5 DEF r

LEMMA OrdinaryAppend ==
  ASSUME NEW q \in Seq(Event), NEW e \in Event
  PROVE  /\ ~IsIdle(e) => Ordinary(Append(q, e)) = Append(Ordinary(q), e)
         /\ IsIdle(e) /\ q = <<>> => Ordinary(Append(q, e)) = Ordinary(q)
<1>1. CASE q = <<>>
  <2>1. /\ Append(q, e) # <<>> /\ Head(Append(q, e)) = e
        /\ Tail(Append(q, e)) = <<>>
    BY <1>1
  <2>2. QED
    BY <1>1, <2>1 DEF Ordinary
<1>2. CASE q # <<>>
  <2>1. /\ Append(q, e) # <<>> /\ Head(Append(q, e)) = Head(q)
        /\ Tail(Append(q, e)) = Append(Tail(q), e)
    BY <1>2
  <2>2. QED
    BY <1>2, <2>1 DEF Ordinary
<1>3. QED
  BY <1>1, <1>2

-----------------------------------------------------------------------------
(* Steps of the executor and steps of the queue *)
Live == TypeOK /\ CurPlaced /\ PosterPlaced /\ LiveInv

LEMMA PushEvent ==
  ASSUME Live, NEW p \in Posters, Push(p), NEW e, e = event[p]
  PROVE  /\ e \in Event /\ IsLive(e)
         /\ e \notin InQ(m_pendingEvents) \cup InQ(m_idleEvents) \cup {cur}
         /\ m_pendingEvents \in Seq(Event) /\ m_idleEvents \in Seq(Event)
         /\ UNCHANGED <<cur, fate, m_Quitting>>
BY DEF Live, LiveInv, Push, TypeOK, PosterPlaced, PosterAt, Fresh, LiveApart,
   IsLive, execVars

LEMMA IdleStep ==
  ASSUME Live, IdlePlaced, [Next]_vars
  PROVE  IdlePlaced'
<1>0. m_pendingEvents \in Seq(Event) /\ m_idleEvents \in Seq(Event)
  BY DEF Live, TypeOK
<1>1. ASSUME NEW p \in Posters, Push(p) PROVE IdlePlaced'
  <2>1. PICK e : e = event[p]
    OBVIOUS
  <2>2. e \in Event
    BY <1>1, <2>1, PushEvent
  <2>3. CASE ForIdleTime(p)
    <3>1. /\ m_idleEvents' = Append(m_idleEvents, e) /\ IsIdle(e)
          /\ m_pendingEvents' = m_pendingEvents
      BY <1>1, <2>1, <2>3 DEF Push, ForIdleTime, IsIdle
    <3>2. InQ(m_idleEvents') = InQ(m_idleEvents) \cup {e}
      BY <1>0, <2>2, <3>1, AppendFacts
    <3>3. QED
      BY <3>1, <3>2 DEF IdlePlaced, IdleFirst, InQ
  <2>4. CASE ~ForIdleTime(p)
    <3>1. /\ m_pendingEvents' = Append(m_pendingEvents, e)
          /\ m_pendingEvents = <<>> \/ ~IsIdle(e)
          /\ m_idleEvents' = m_idleEvents
      BY <1>1, <2>1, <2>4 DEF Push, ForIdleTime, IsIdle
    <3>2. IdleFirst(m_pendingEvents')
      BY <1>0, <2>2, <3>1, AppendPlaced DEF IdlePlaced
    <3>3. QED
      BY <3>1, <3>2 DEF IdlePlaced, IdleFirst, InQ
  <2>5. QED
    BY <2>3, <2>4
<1>2. ASSUME Take PROVE IdlePlaced'
  <2>1. CASE xpc = "idle"
    <3>1. /\ m_idleEvents # <<>> /\ m_idleEvents' = Tail(m_idleEvents)
          /\ m_pendingEvents' = m_pendingEvents
      BY <1>2, <2>1 DEF Take, Queue
    <3>2. InQ(m_idleEvents') \subseteq InQ(m_idleEvents)
      BY <1>0, <3>1, TailFacts
    <3>3. QED
      BY <3>1, <3>2 DEF IdlePlaced, IdleFirst, InQ
  <2>2. CASE xpc = "pending"
    <3>1. /\ m_pendingEvents # <<>> /\ m_pendingEvents' = Tail(m_pendingEvents)
          /\ m_idleEvents' = m_idleEvents
      BY <1>2, <2>2 DEF Take, Queue
    <3>2. IdleFirst(m_pendingEvents')
      BY <1>0, <3>1, TailPlaced DEF IdlePlaced
    <3>3. QED
      BY <3>1, <3>2 DEF IdlePlaced, IdleFirst, InQ
  <2>3. QED
    BY <1>2, <2>1, <2>2 DEF Take
<1>3. ASSUME UNCHANGED <<m_pendingEvents, m_idleEvents>> PROVE IdlePlaced'
  BY <1>3 DEF IdlePlaced, IdleFirst, InQ
<1>4. Take \/ (\E p \in Posters : Push(p)) \/ UNCHANGED <<m_pendingEvents, m_idleEvents>>
  BY DEF Next, ExecutorNext, Chooses, Proceeds, vars, queueVars, Begin, ShutdownQueue,
     ShutdownTest,
     TestQuitting, Returned, LeaveScope, ScopeLeft, ShutdownSet, ShutdownWake,
     ShutdownJoin, Drained, Wake, TestShutdown, Invoke, CleanupEvent, EnterScope,
     LockResume, ScopeThrows, PostScope, HoldEnds, UnlockResume, DoResume
<1>5. QED
  BY <1>1, <1>2, <1>3, <1>4

\* What the queue is called with.
AQueue == TasksOf(Ordinary(m_pendingEvents))
ALazy == {Task(e) : e \in Idle}
ACur == IF cur = NoEvent THEN NoEvent ELSE Task(cur)

LEMMA LazyFacts ==
  ASSUME TypeOK
  PROVE  /\ \A e \in Idle : e \in Event /\ IsLive(e)
         /\ Idle = {e \in InQ(m_pendingEvents) \cup InQ(m_idleEvents) : IsIdle(e)}
<1>1. m_pendingEvents \in Seq(Event) /\ m_idleEvents \in Seq(Event)
  BY DEF TypeOK
<1>2. Idle = {e \in InQ(m_pendingEvents) \cup InQ(m_idleEvents) : IsIdle(e)}
  BY <1>1, OrdinaryFacts DEF Idle
<1>3. \A e \in Idle : e \in Event /\ IsLive(e)
  BY <1>1, <1>2, InQEvents DEF IsLive
<1>4. QED
  BY <1>2, <1>3

\* Live events have tasks of their own.
LEMMA TasksApart ==
  ASSUME Live, NEW e \in Event, NEW f \in Event, IsLive(e), IsLive(f),
         TaskId(Task(e)) = TaskId(Task(f))
  PROVE  e = f
<1>1. SameId(e, f)
  BY TaskFacts DEF SameId
<1>2. QED
  BY <1>1 DEF Live, LiveInv, LiveApart

\* An event on neither list is not yet known.
LEMMA NotKnown ==
  ASSUME Live, NEW e \in Event, IsLive(e),
         e \notin InQ(m_pendingEvents) \cup InQ(m_idleEvents) \cup {cur}
  PROVE  ~Q!Known(Task(e))
<1>1. e.by \in Posters /\ e.n \in 1..MaxEvents /\ fate[e.by][e.n] = "none"
  BY EventFields DEF Live, LiveInv, LiveUntold
<1>2. TaskId(Task(e)) \notin Fated("done") \cup Fated("refused")
  <2>1. TaskId(Task(e)) = <<e.by, e.n>>
    BY TaskFacts
  <2>2. QED
    BY <1>1, <2>1 DEF Fated
<1>3. ~(ACur # NoEvent /\ TaskId(Task(e)) = TaskId(ACur))
  <2> SUFFICES ASSUME ACur # NoEvent, TaskId(Task(e)) = TaskId(ACur) PROVE FALSE
    OBVIOUS
  <2>1. cur # NoEvent /\ cur \in Event /\ ACur = Task(cur) /\ IsLive(cur)
    BY DEF ACur, Live, TypeOK, IsLive
  <2>2. QED
    BY <2>1, TasksApart
<1>4. ~\E u \in ALazy : TaskId(Task(e)) = TaskId(u)
  <2> SUFFICES ASSUME NEW f \in Idle, TaskId(Task(e)) = TaskId(Task(f)) PROVE FALSE
    BY DEF ALazy
  <2>1. f \in Event /\ IsLive(f) /\ f \in InQ(m_pendingEvents) \cup InQ(m_idleEvents)
    BY LazyFacts DEF Live
  <2>2. QED
    BY <2>1, TasksApart
<1>5. ~\E i \in 1..Len(AQueue) : TaskId(Task(e)) = TaskId(AQueue[i])
  <2> SUFFICES ASSUME NEW i \in 1..Len(AQueue),
                      TaskId(Task(e)) = TaskId(AQueue[i])
               PROVE  FALSE
    OBVIOUS
  <2>1. m_pendingEvents \in Seq(Event)
    BY DEF Live, TypeOK
  <2>2. PICK q : q = Ordinary(m_pendingEvents)
    OBVIOUS
  <2>3. q \in Seq(Event) /\ InQ(q) \subseteq InQ(m_pendingEvents)
    BY <2>1, <2>2, OrdinaryFacts
  <2>4. i \in 1..Len(q) /\ AQueue[i] = Task(q[i])
    BY <2>2, <2>3, TasksOfFacts DEF AQueue
  <2>5. q[i] \in Event /\ q[i] \in InQ(m_pendingEvents) /\ IsLive(q[i])
    BY <2>3, <2>4 DEF InQ, IsLive
  <2>6. QED
    BY <2>4, <2>5, TasksApart
<1>6. QED
  BY <1>2, <1>3, <1>4, <1>5 DEF Q!Known, ACur, ALazy, AQueue

\* Only the fate of the event that ends changes.
LEMMA FatedEnd ==
  ASSUME TypeOK, NEW e \in Event, NEW how, Ends(e, how), fate[e.by][e.n] = "none",
         NEW other, other # how, other # "none", how # "none"
  PROVE  /\ Fated(how)' = Fated(how) \cup {TaskId(Task(e))}
         /\ Fated(other)' = Fated(other)
<1>1. /\ e.by \in Posters /\ e.n \in 1..MaxEvents
      /\ TaskId(Task(e)) = <<e.by, e.n>>
  BY EventFields, TaskFacts
<1>2. /\ fate'[e.by][e.n] = how
      /\ \A p \in Posters : \A n \in 1..MaxEvents :
           p # e.by \/ n # e.n => fate'[p][n] = fate[p][n]
  BY EndChanges
<1>3. ASSUME NEW id \in Posters \X (1..MaxEvents), id # <<e.by, e.n>>
      PROVE  fate'[id[1]][id[2]] = fate[id[1]][id[2]]
  BY <1>2, <1>3
<1>4. <<e.by, e.n>> \in Posters \X (1..MaxEvents)
  BY <1>1
<1>5. Fated(how)' = Fated(how) \cup {TaskId(Task(e))}
  BY <1>1, <1>2, <1>3, <1>4 DEF Fated
<1>6. Fated(other)' = Fated(other)
  BY <1>1, <1>2, <1>3, <1>4 DEF Fated
<1>7. QED
  BY <1>5, <1>6

-----------------------------------------------------------------------------
QueueKept == UNCHANGED <<AQueue, ALazy, ACur, Fated("done"), Fated("refused"),
                         m_Quitting>>

LEMMA KeptQueue ==
  ASSUME QueueKept
  PROVE  UNCHANGED Q!queueVars
BY DEF QueueKept, AQueue, ALazy, ACur, Q!queueVars

LEMMA SameLists ==
  ASSUME UNCHANGED <<m_pendingEvents, m_idleEvents>>
  PROVE  UNCHANGED <<AQueue, ALazy>>
BY DEF AQueue, ALazy, Idle, TasksOf, Ordinary, ToSet

LEMMA SameFates ==
  ASSUME UNCHANGED fate
  PROVE  UNCHANGED <<Fated("done"), Fated("refused")>>
BY DEF Fated

LEMMA PushAccepts ==
  ASSUME Live, IdlePlaced, NEW p \in Posters, Push(p), NEW e, e = event[p]
  PROVE  Task(e) \in AllTasks /\ Q!Accept(Task(e))
<1>1. /\ e \in Event /\ IsLive(e)
      /\ e \notin InQ(m_pendingEvents) \cup InQ(m_idleEvents) \cup {cur}
      /\ m_pendingEvents \in Seq(Event) /\ m_idleEvents \in Seq(Event)
      /\ UNCHANGED <<cur, fate, m_Quitting>>
  BY PushEvent
<1>2. /\ Task(e) \in AllTasks /\ IsIdle(Task(e)) = IsIdle(e)
      /\ ~Q!Known(Task(e))
  BY <1>1, TaskFacts, NotKnown
<1>3. UNCHANGED <<ACur, Fated("done"), Fated("refused"), m_Quitting>>
  BY <1>1, SameFates DEF ACur
<1>4. /\ Idle = {f \in InQ(m_pendingEvents) \cup InQ(m_idleEvents) : IsIdle(f)}
      /\ m_pendingEvents' \in Seq(Event) /\ m_idleEvents' \in Seq(Event) =>
           Idle' = {f \in InQ(m_pendingEvents') \cup InQ(m_idleEvents') : IsIdle(f)}
  BY <1>1, OrdinaryFacts DEF Idle
<1>5. CASE IsIdle(e)
  <2>1. /\ AQueue' = AQueue
        /\ Idle' = Idle \cup {e}
    <3>1. CASE ForIdleTime(p)
      <4>1. /\ m_idleEvents' = Append(m_idleEvents, e)
            /\ m_pendingEvents' = m_pendingEvents
        BY <1>1, <3>1 DEF Push
      <4>2. InQ(m_idleEvents') = InQ(m_idleEvents) \cup {e}
            /\ m_idleEvents' \in Seq(Event)
        BY <1>1, <4>1, AppendFacts
      <4>3. AQueue' = AQueue
        BY <4>1 DEF AQueue
      <4>4. QED
        BY <1>1, <1>4, <1>5, <4>1, <4>2, <4>3
    <3>2. CASE ~ForIdleTime(p)
      <4>1. /\ m_pendingEvents' = Append(m_pendingEvents, e)
            /\ m_pendingEvents = <<>>
            /\ m_idleEvents' = m_idleEvents
        BY <1>1, <1>5, <3>2 DEF Push, ForIdleTime, IsIdle
      <4>2. /\ InQ(m_pendingEvents') = InQ(m_pendingEvents) \cup {e}
            /\ m_pendingEvents' \in Seq(Event)
        <5>1. InQ(m_pendingEvents') = InQ(m_pendingEvents) \cup {e}
          BY <1>1, <4>1, AppendFacts
        <5>2. m_pendingEvents' \in Seq(Event)
          BY <1>1, <4>1
        <5>3. QED
          BY <5>1, <5>2
      <4>3. Ordinary(m_pendingEvents') = Ordinary(m_pendingEvents)
        BY <1>1, <1>5, <4>1, OrdinaryAppend
      <4>4. AQueue' = AQueue
        BY <4>3 DEF AQueue
      <4>5. QED
        BY <1>1, <1>4, <1>5, <4>1, <4>2, <4>4
    <3>3. QED
      BY <3>1, <3>2
  <2>2. ALazy' = ALazy \cup {Task(e)}
    BY <2>1 DEF ALazy
  <2>3. QED
    BY <1>2, <1>3, <1>5, <2>1, <2>2 DEF Q!Accept, AQueue, ALazy, ACur
<1>6. CASE ~IsIdle(e)
  <2>1. /\ m_pendingEvents' = Append(m_pendingEvents, e)
        /\ m_idleEvents' = m_idleEvents
    BY <1>1, <1>6 DEF Push, ForIdleTime, IsIdle
  <2>2. /\ InQ(m_pendingEvents') = InQ(m_pendingEvents) \cup {e}
        /\ m_pendingEvents' \in Seq(Event)
    <3>1. InQ(m_pendingEvents') = InQ(m_pendingEvents) \cup {e}
      BY <1>1, <2>1, AppendFacts
    <3>2. m_pendingEvents' \in Seq(Event)
      BY <1>1, <2>1
    <3>3. QED
      BY <3>1, <3>2
  <2>3. Idle' = Idle
    BY <1>1, <1>4, <1>6, <2>1, <2>2
  <2>4. Ordinary(m_pendingEvents') = Append(Ordinary(m_pendingEvents), e)
    BY <1>1, <1>6, <2>1, OrdinaryAppend
  <2>5. AQueue' = Append(AQueue, Task(e))
    BY <1>1, <2>4, OrdinaryFacts, TasksOfAppend DEF AQueue
  <2>6. ALazy' = ALazy
    BY <2>3 DEF ALazy
  <2>7. QED
    BY <1>2, <1>3, <1>6, <2>5, <2>6 DEF Q!Accept, AQueue, ALazy, ACur
<1>7. QED
  BY <1>2, <1>5, <1>6

LEMMA TestRefuses ==
  ASSUME Live, NEW p \in Posters, TestQuitting(p), NEW e, e = event[p]
  PROVE  \/ Task(e) \in AllTasks /\ Q!Refuse(Task(e))
         \/ QueueKept
<1>1. UNCHANGED <<AQueue, ALazy, ACur, m_Quitting>>
  BY SameLists DEF TestQuitting, ACur, queueVars, execVars
<1>2. CASE ~m_Quitting
  BY <1>1, <1>2, SameFates DEF TestQuitting, QueueKept
<1>3. CASE m_Quitting
  <2>1. /\ e \in Event /\ IsLive(e)
        /\ e \notin InQ(m_pendingEvents) \cup InQ(m_idleEvents) \cup {cur}
        /\ Ends(e, "refused") /\ fate[e.by][e.n] = "none"
    <3>1. Fresh(p) /\ Ends(e, "refused")
      BY <1>3 DEF TestQuitting, Fresh
    <3>2. e \in Event /\ IsLive(e)
      BY <3>1 DEF Live, TypeOK, PosterPlaced, PosterAt, Fresh, IsLive
    <3>3. e \notin InQ(m_pendingEvents) \cup InQ(m_idleEvents) \cup {cur}
      BY <3>1 DEF Live, LiveInv, LiveApart
    <3>4. fate[e.by][e.n] = "none"
      BY <3>2 DEF Live, LiveInv, LiveUntold
    <3>5. QED
      BY <3>1, <3>2, <3>3, <3>4
  <2>2. Task(e) \in AllTasks /\ ~Q!Known(Task(e))
    BY <2>1, TaskFacts, NotKnown
  <2>3. /\ Fated("refused")' = Fated("refused") \cup {TaskId(Task(e))}
        /\ Fated("done")' = Fated("done")
    <3>1. TypeOK
      BY DEF Live
    <3>2. QED
      BY <2>1, <3>1, FatedEnd
  <2>4. QED
    BY <1>1, <1>3, <2>2, <2>3 DEF Q!Refuse, AQueue, ALazy, ACur
<1>4. QED
  BY <1>2, <1>3

\* The event taken leaves the queue or the lazy tasks.
LEMMA TakeLeaves ==
  ASSUME Live, IdlePlaced, Take, NEW e, e = Head(Queue(xpc))
  PROVE  Q!Leaves(Task(e))
<1>1. /\ e \in Event /\ IsLive(e) /\ Task(e).kind = e.kind
      /\ e \in InQ(m_pendingEvents) \cup InQ(m_idleEvents)
  BY TakeLive, TakeQueues, TaskFacts DEF Live, LiveInv
<1>2. /\ m_pendingEvents \in Seq(Event) /\ m_idleEvents \in Seq(Event)
      /\ m_pendingEvents' \in Seq(Event) /\ m_idleEvents' \in Seq(Event)
  BY TakeFacts DEF Live, TypeOK
<1>3. /\ Idle = {f \in InQ(m_pendingEvents) \cup InQ(m_idleEvents) : IsIdle(f)}
      /\ Idle' = {f \in InQ(m_pendingEvents') \cup InQ(m_idleEvents') : IsIdle(f)}
  BY <1>2, OrdinaryFacts DEF Idle
<1>4. /\ NoDup(m_pendingEvents) /\ NoDup(m_idleEvents)
      /\ InQ(m_pendingEvents) \cap InQ(m_idleEvents) = {}
  BY DEF Live, LiveInv, LiveApart
<1>5. /\ \/ /\ xpc = "idle" /\ m_idleEvents # <<>> /\ e = Head(m_idleEvents)
            /\ m_idleEvents' = Tail(m_idleEvents)
            /\ m_pendingEvents' = m_pendingEvents
         \/ /\ xpc = "pending" /\ m_pendingEvents # <<>>
            /\ e = Head(m_pendingEvents)
            /\ m_pendingEvents' = Tail(m_pendingEvents)
            /\ m_idleEvents' = m_idleEvents
  BY DEF Take, Queue
<1>6. Idle' = Idle \ {e}
  <2>1. \/ /\ InQ(m_idleEvents') = InQ(m_idleEvents) \ {e}
           /\ InQ(m_pendingEvents') = InQ(m_pendingEvents)
           /\ e \in InQ(m_idleEvents)
        \/ /\ InQ(m_pendingEvents') = InQ(m_pendingEvents) \ {e}
           /\ InQ(m_idleEvents') = InQ(m_idleEvents)
           /\ e \in InQ(m_pendingEvents)
    <3>1. CASE xpc = "idle"
      BY <1>2, <1>4, <1>5, <3>1, TailFacts
    <3>2. CASE xpc = "pending"
      BY <1>2, <1>4, <1>5, <3>2, TailFacts
    <3>3. QED
      BY <1>5, <3>1, <3>2
  <2>2. QED
    BY <1>3, <1>4, <2>1
<1>7. CASE IsIdle(e)
  <2>1. AQueue' = AQueue
    <3>1. Ordinary(m_pendingEvents') = Ordinary(m_pendingEvents)
      BY <1>2, <1>5, <1>7, TailPlaced DEF Ordinary, IdlePlaced
    <3>2. QED
      BY <3>1 DEF AQueue
  <2>2. e \in Idle
    BY <1>1, <1>3, <1>7
  <2>3. \A f \in Idle : f # e => Task(f) # Task(e)
    BY <1>1, LazyFacts, TasksApart DEF Live
  <2>4. ALazy' = ALazy \ {Task(e)} /\ Task(e) \in ALazy
    BY <1>6, <2>2, <2>3 DEF ALazy
  <2>5. QED
    BY <2>1, <2>4 DEF Q!Leaves, AQueue, ALazy
<1>8. CASE ~IsIdle(e)
  <2>1. xpc = "pending"
    BY <1>2, <1>5, <1>8, TailFacts DEF IdlePlaced
  <2>2. /\ Ordinary(m_pendingEvents) = m_pendingEvents
        /\ Ordinary(m_pendingEvents') = Tail(m_pendingEvents)
    BY <1>2, <1>5, <1>8, <2>1, TailPlaced DEF Ordinary, IdlePlaced
  <2>3. /\ AQueue # <<>> /\ Task(e) = Head(AQueue) /\ AQueue' = Tail(AQueue)
    BY <1>2, <1>5, <2>1, <2>2, TasksOfTail DEF AQueue
  <2>4. ALazy' = ALazy
    BY <1>3, <1>6, <1>8 DEF ALazy
  <2>5. QED
    BY <2>3, <2>4 DEF Q!Leaves, AQueue, ALazy
<1>9. QED
  BY <1>7, <1>8

LEMMA TakeStarts ==
  ASSUME Live, IdlePlaced, Take, NEW e, e = Head(Queue(xpc))
  PROVE  Task(e) \in AllTasks /\ (Q!Start(Task(e)) \/ Q!Skip(Task(e)))
<1>1. /\ e \in Event /\ e # NoEvent /\ cur = NoEvent /\ IsLive(e)
      /\ fate[e.by][e.n] = "none" /\ Task(e) \in AllTasks
      /\ IsCritical(Task(e)) = (e.kind \in Critical)
  BY TakeLive, TakeQueues, TaskFacts DEF Live, LiveInv, LiveUntold
<1>2. Q!Leaves(Task(e)) /\ UNCHANGED m_Quitting
  BY TakeLeaves DEF Take
<1>3. CASE Runs(e)
  <2>1. cur' = e /\ UNCHANGED fate
    BY <1>3 DEF Take
  <2>2. ACur = NoEvent /\ ACur' = Task(e)
    BY <1>1, <2>1 DEF ACur
  <2>3. UNCHANGED <<Fated("done"), Fated("refused")>>
    BY <2>1, SameFates
  <2>4. Q!Start(Task(e))
    BY <1>2, <2>2, <2>3 DEF Q!Start, ACur
  <2>5. QED
    BY <1>1, <2>4
<1>4. CASE ~Runs(e)
  <2>1. Ends(e, "refused") /\ UNCHANGED cur
    BY <1>4 DEF Take
  <2>2. /\ Fated("refused")' = Fated("refused") \cup {TaskId(Task(e))}
        /\ Fated("done")' = Fated("done")
    BY <1>1, <2>1, FatedEnd DEF Live
  <2>3. m_Quitting /\ ~IsCritical(Task(e))
    BY <1>1, <1>4 DEF Runs
  <2>4. UNCHANGED ACur
    BY <2>1 DEF ACur
  <2>5. Q!Skip(Task(e))
    BY <1>2, <2>2, <2>3, <2>4 DEF Q!Skip, ACur
  <2>6. QED
    BY <1>1, <2>5
<1>5. QED
  BY <1>3, <1>4

LEMMA CleanupFinishes ==
  ASSUME Live, CleanupEvent
  PROVE  Q!Finish
<1>1. cur \in Event /\ cur # NoEvent /\ IsLive(cur) /\ fate[cur.by][cur.n] = "none"
  BY CurIsEvent DEF Live, LiveInv, LiveUntold, IsLive, CleanupEvent, Busy
<1>2. ACur = Task(cur) /\ ACur # NoEvent /\ ACur' = NoEvent
  BY <1>1, TaskFacts DEF CleanupEvent, ACur
<1>3. /\ Fated("done")' = Fated("done") \cup {TaskId(Task(cur))}
      /\ Fated("refused")' = Fated("refused")
  BY <1>1, FatedEnd DEF CleanupEvent, Live
<1>4. UNCHANGED <<AQueue, ALazy, m_Quitting>>
  BY SameLists DEF CleanupEvent, queueVars
<1>5. QED
  BY <1>2, <1>3, <1>4 DEF Q!Finish, AQueue, ALazy, ACur

LEMMA SetCloses ==
  ASSUME NEW p \in Posters, ShutdownSet(p)
  PROVE  Q!Close
<1>1. UNCHANGED <<AQueue, ALazy, ACur, Fated("done"), Fated("refused")>>
  BY SameLists, SameFates DEF ShutdownSet, ACur, execVars
<1>2. m_Quitting' = TRUE
  BY DEF ShutdownSet
<1>3. QED
  BY <1>1, <1>2 DEF Q!Close, AQueue, ALazy, ACur

\* The release of a scope changes nothing of its event but m_sync.
LEMMA HoldKeeps ==
  ASSUME Live, HoldEnds
  PROVE  QueueKept
<1>1. ACur' = ACur
  <2>1. /\ cur \in Event /\ cur' \in Event
        /\ SameId(cur', cur) /\ cur'.kind = cur.kind
    BY HoldFacts DEF Live
  <2>2. QED
    BY <2>1, NoEventApart DEF ACur, Task, SameId
<1>2. QED
  BY <1>1, SameLists, SameFates DEF HoldEnds, QueueKept, queueVars

\* Every step of the executor is a step of the queue, or none.
LEMMA StepRefines ==
  ASSUME Live, IdlePlaced, [Next]_vars
  PROVE  [Q!Next]_(Q!queueVars)
<1>1. ASSUME NEW p \in Posters, Push(p) PROVE Q!Next
  BY <1>1, PushAccepts DEF Q!Next, AllTasks
<1>2. ASSUME NEW p \in Posters, TestQuitting(p) PROVE Q!Next \/ QueueKept
  BY <1>2, TestRefuses DEF Q!Next, AllTasks
<1>3. ASSUME Take PROVE Q!Next
  BY <1>3, TakeStarts DEF Q!Next, AllTasks
<1>4. ASSUME CleanupEvent PROVE Q!Next
  BY <1>4, CleanupFinishes DEF Q!Next
<1>5. ASSUME NEW p \in Posters, ShutdownSet(p) PROVE Q!Next
  BY <1>5, SetCloses DEF Q!Next
<1>6. ASSUME HoldEnds PROVE QueueKept
  BY <1>6, HoldKeeps
<1>7. ASSUME UNCHANGED <<m_pendingEvents, m_idleEvents, cur, fate, m_Quitting>>
      PROVE  QueueKept
  BY <1>7, SameLists, SameFates DEF QueueKept, ACur
<1>8. \/ \E p \in Posters : Push(p) \/ TestQuitting(p) \/ ShutdownSet(p)
      \/ Take \/ CleanupEvent \/ HoldEnds
      \/ UNCHANGED <<m_pendingEvents, m_idleEvents, cur, fate, m_Quitting>>
  BY DEF Next, ExecutorNext, Chooses, Proceeds, vars, queueVars, execVars,
     Begin, ShutdownQueue, ShutdownTest, Returned, LeaveScope, ScopeLeft, ShutdownWake,
     ShutdownJoin, Drained, Wake, TestShutdown, Invoke, EnterScope,
     LockResume, ScopeThrows, PostScope, UnlockResume, DoResume
<1>9. QED
  BY <1>1, <1>2, <1>3, <1>4, <1>5, <1>6, <1>7, <1>8, KeptQueue

LEMMA InitRefines ==
  ASSUME Init
  PROVE  IdlePlaced /\ Q!Init
<1>1. m_pendingEvents = <<>> /\ m_idleEvents = <<>> /\ cur = NoEvent
  BY DEF Init
<1>2. IdlePlaced
  BY <1>1 DEF IdlePlaced, IdleFirst, InQ
<1>3. AQueue = <<>>
  BY <1>1 DEF AQueue, TasksOf, Ordinary
<1>4. ALazy = {}
  BY <1>1 DEF ALazy, Idle, ToSet
<1>5. Fated("done") = {} /\ Fated("refused") = {}
  BY DEF Fated, Init
<1>6. QED
  BY <1>1, <1>2, <1>3, <1>4, <1>5 DEF Q!Init, AQueue, ALazy, ACur, Init

\* Whatever the threads and the events: no event is lost, run twice, beside
\* another one or before an earlier one, and none is refused before the
\* shutdown, nor a critical one once queued.
THEOREM ImplementsTaskQueue == Spec => TaskRefinement
<1>1. IInv => Live
  BY DEF IInv, Live, LiveInv
<1>2. Init => IdlePlaced /\ Q!Init
  BY InitRefines
<1>3. IInv /\ IdlePlaced /\ [Next]_vars => IdlePlaced'
  BY <1>1, IdleStep
<1>4. IInv /\ IdlePlaced /\ [Next]_vars => [Q!Next]_(Q!queueVars)
  BY <1>1, StepRefines
<1>5. QED
  BY <1>2, <1>3, <1>4, Invariance, PTL DEF Spec, TaskRefinement, Q!Spec
=============================================================================
