--------------------------- MODULE SysThreadProofs ---------------------------
(***************************************************************************)
(* Proofs about SysThread.  Any number of callers making any calls:        *)
(* MutexInv is mutual exclusion on m_ExecModeMutex; ThreadInv ties m_ExecMode,*)
(* m_running, m_RunningLock and the plugins to the place of the worker.    *)
(*                                                                         *)
(* One caller at a time, as in the program: SoleInv adds where that caller *)
(* is for every state of the worker, and so what its calls promise.        *)
(***************************************************************************)
EXTENDS SysThread, TLAPS

\* The places inside the scope of a ScopedLock on m_ExecModeMutex.
Inside == {"s_read", "s_close", "s_change", "s_token", "s_wait", "s_post",
           "p_read", "p_write", "p_post",
           "r_read", "r_start", "r_started", "r_event", "r_made", "r_run",
           "r_again", "r_ready", "r_open", "r_post"}

MutexInv == \A c \in Callers : pc[c] \in Inside => m_ExecModeMutex = c

\* Resume has created the thread and waits for its first close.
Starting == {"r_started", "r_event", "r_made", "r_run"}

RunningInv == m_running <=> wpc \notin Gone

LockInv ==
  wpc \in {"event", "check", "enter", "exec", "pausing", "relP", "wokeP",
           "close", "closed", "relC", "open", "reset"}
    => m_RunningLock = "worker"

PluginInv ==
  /\ wpc \in {"enter", "exec", "pausing", "relP", "holdP", "waitP", "lockP",
              "wokeP", "reset"} => pluginsOpen
  /\ wpc \in {"closed", "relC", "holdC", "waitC", "lockC"} => ~pluginsOpen

\* Until its first close the worker's mode is Closing and its starter waits.
FirstInv ==
  /\ wpc = "boot" => \E c \in Callers : pc[c] = "r_started"
  /\ wpc = "event" \/ (wpc = "check" /\ ~pluginsOpen)
       => /\ m_ExecMode = "Closing"
          /\ \E c \in Callers : pc[c] \in Starting

NoThreadInv == m_ExecMode = "NoThreadYet" => wpc \in {"die3", "die4", "die5"}
      \cup Gone

StartInv ==
  \A c \in Callers : pc[c] = "r_start"
    => m_ExecMode = "NoThreadYet" /\ wpc \in {"die3", "die4", "die5", "off"}

ThreadInv ==
  /\ RunningInv /\ LockInv /\ PluginInv /\ FirstInv
  /\ NoThreadInv /\ StartInv /\ SafelyPaused

\* The inductive invariant.
SysInv == TypeOK /\ MutexInv /\ ThreadInv

-----------------------------------------------------------------------------
(* Types *)

\* The flags of TypeOK, and the rest of it.
FlagsOK ==
  /\ m_running \in BOOLEAN /\ m_sem_event \in BOOLEAN
  /\ pluginsOpen \in BOOLEAN /\ m_resetVirtualMachine \in BOOLEAN
  /\ m_hasActiveMachine \in BOOLEAN /\ cancelled \in BOOLEAN
OthersOK ==
  /\ m_ExecMode \in Modes
  /\ m_ExecModeMutex \in Callers \cup {"nobody"}
  /\ m_RunningLock \in {"worker", "nobody"}
  /\ m_mtx_start \in Callers \cup {"nobody"}
  /\ m_sem_Resume \in Nat /\ m_sem_ChangingExecMode \in Nat
  /\ wpc \in WorkerPlaces
  /\ pc \in [Callers -> CallerPlaces]
  /\ call \in [Callers -> AllCalls \cup {"none"}]
  /\ promise \in {"none", "paused", "closed"}

LEMMA TypeParts == TypeOK <=> FlagsOK /\ OthersOK
  BY Zenon DEF TypeOK, FlagsOK, OthersOK

LEMMA CallerType ==
  ASSUME TypeOK, NEW c \in Callers, Begin(c) \/ CallerStep(c)
  PROVE  TypeOK'
<1> USE DEF TypeOK, modeVars, lockVars, semVars, vmVars, workerVars, callerVars,
      Modes, AllCalls, CallerPlaces, SuspendPlaces, PausePlaces, ResumePlaces
<1>1. CASE Begin(c)
  <2>1. PICK op \in Calls :
          /\ pc' = [pc EXCEPT ![c] = FirstPlace(op)]
          /\ call' = [call EXCEPT ![c] = op]
          /\ promise' = IF op \in Moving THEN "none" ELSE promise
          /\ m_hasActiveMachine' = (m_hasActiveMachine /\ op # "Cancel")
    BY <1>1 DEF Begin
  <2>2. op \in AllCalls  BY SysThreadAssumption
  <2>3. FirstPlace(op) \in CallerPlaces  BY <2>2 DEF FirstPlace
  <2>4. FlagsOK'  BY <1>1, <2>1, Zenon DEF FlagsOK, Begin
  <2>5. OthersOK'  BY <1>1, <2>1, <2>2, <2>3 DEF OthersOK, Begin
  <2> QED  BY <2>4, <2>5, TypeParts, Zenon DEF FlagsOK, OthersOK
<1>2. CASE SuspendCheck(c)
  BY <1>2 DEF SuspendCheck, QuietReturn, QuietGo, Return, Go
<1>34. CASE SuspendMode(c)
  BY <1>34 DEF SuspendMode, QuietReturn, QuietGo, Return, Go
<1>3. CASE SuspendLock(c)  BY <1>3 DEF SuspendLock, Lock, Go
<1>4. CASE SuspendSwitch(c)
  BY <1>4 DEF SuspendSwitch, UnlockReturn, Return, QuietGo, Go
<1>5. CASE SuspendOpened(c)  BY <1>5 DEF SuspendOpened, WriteMode, Go
<1>6. CASE SuspendPaused(c)  BY <1>6 DEF SuspendPaused, WriteMode, Go
<1>7. CASE SuspendToken(c)  BY <1>7 DEF SuspendToken, Go
<1>8. CASE SuspendChanged(c)  BY <1>8 DEF SuspendChanged, Go
<1>9. CASE SuspendPost(c)  BY <1>9 DEF SuspendPost, Go, Return
<1>10. CASE SuspendRun(c)  BY <1>10 DEF SuspendRun, QuietReturn, Return
<1>11. CASE ResetFlags(c)
  <2>1. FlagsOK'  BY <1>11, Zenon DEF FlagsOK, ResetFlags, Return
  <2>2. OthersOK'  BY <1>11 DEF OthersOK, ResetFlags, Return
  <2> QED  BY <2>1, <2>2, TypeParts, Zenon DEF FlagsOK, OthersOK
<1>12. CASE PauseCheck(c)
  BY <1>12 DEF PauseCheck, QuietReturn, QuietGo, Return, Go
<1>35. CASE PauseMode(c)
  BY <1>35 DEF PauseMode, QuietReturn, QuietGo, Return, Go
<1>13. CASE PauseLock(c)  BY <1>13 DEF PauseLock, Lock, Go
<1>14. CASE PauseRead(c)
  BY <1>14 DEF PauseRead, UnlockReturn, Return, QuietGo, Go
<1>15. CASE PauseWrite(c)  BY <1>15 DEF PauseWrite, WriteMode, Go
<1>16. CASE PausePost(c)  BY <1>16 DEF PausePost, Go
<1>17. CASE PauseRun(c)  BY <1>17 DEF PauseRun, QuietReturn, Return
<1>18. CASE ResumeCheck(c)
  BY <1>18 DEF ResumeCheck, QuietReturn, QuietGo, Return, Go
<1>19. CASE ResumeLock(c)  BY <1>19 DEF ResumeLock, Lock, Go
<1>20. CASE ResumeSwitch(c)
  BY <1>20 DEF ResumeSwitch, UnlockReturn, Return, QuietGo, Go
<1>21. CASE ResumeStart(c)
  <2>1. CASE m_running  BY <1>21, <2>1 DEF ResumeStart, QuietGo, Go
  <2>2. CASE ~m_running
    <3>1. FlagsOK'  BY <1>21, <2>2, Zenon DEF FlagsOK, ResumeStart, Go
    <3>2. /\ pc' = [pc EXCEPT ![c] = "r_started"]
          /\ m_mtx_start' = c /\ m_RunningLock' = "nobody"
          /\ m_sem_Resume' = 0 /\ m_sem_ChangingExecMode' = 0
          /\ wpc' = "boot"
          /\ UNCHANGED <<m_ExecMode, m_ExecModeMutex, call, promise>>
      BY <1>21, <2>2, Zenon DEF ResumeStart, Go
    <3>3. OthersOK'  BY <3>2 DEF OthersOK, WorkerPlaces, Gone
    <3> QED  BY <3>1, <3>3, Zenon DEF FlagsOK, OthersOK
  <2> QED  BY <2>1, <2>2
<1>22. CASE ResumeStarted(c)  BY <1>22 DEF ResumeStarted, Go
<1>23. CASE ResumeEvent(c)  BY <1>23 DEF ResumeEvent, Go
<1>24. CASE ResumeMade(c)
  BY <1>24 DEF ResumeMade, UnlockReturn, Return, QuietGo, Go
<1>25. CASE ResumeRun(c)  BY <1>25 DEF ResumeRun, QuietGo, Go
<1>26. CASE ResumeAgain(c)
  BY <1>26 DEF ResumeAgain, UnlockReturn, Return, QuietGo, Go
<1>27. CASE ResumeReady(c)  BY <1>27 DEF ResumeReady, Go
<1>28. CASE ResumeOpen(c)  BY <1>28 DEF ResumeOpen, WriteMode, Go
<1>29. CASE ResumePost(c)  BY <1>29 DEF ResumePost, Return
<1>30. CASE UploadCheck(c)
  BY <1>30 DEF UploadCheck, QuietReturn, QuietGo, Return, Go, IsPaused
<1>31. CASE UploadCopy(c)
  <2>1. FlagsOK'  BY <1>31, Zenon DEF FlagsOK, UploadCopy, Return
  <2>2. OthersOK'  BY <1>31 DEF OthersOK, UploadCopy, Return
  <2> QED  BY <2>1, <2>2, TypeParts, Zenon DEF FlagsOK, OthersOK
<1>32. CASE CancelLock(c)
  <2>1. FlagsOK'  BY <1>32, Zenon DEF FlagsOK, CancelLock, QuietReturn, Return,
        Go
  <2>2. OthersOK'  BY <1>32 DEF OthersOK, CancelLock, QuietReturn, Return, Go
  <2> QED  BY <2>1, <2>2, TypeParts, Zenon DEF FlagsOK, OthersOK
<1>33. CASE CancelWait(c)  BY <1>33 DEF CancelWait, Return
<1> QED  BY <1>1, <1>2, <1>3, <1>4, <1>5, <1>6, <1>7, <1>8, <1>9, <1>10, <1>11,
      <1>12, <1>13, <1>14, <1>15, <1>16, <1>17, <1>18, <1>19, <1>20, <1>21,
      <1>22, <1>23, <1>24, <1>25, <1>26, <1>27, <1>28, <1>29, <1>30, <1>31,
      <1>32, <1>33, <1>34, <1>35
      DEF CallerStep, SuspendStep, PauseStep, ResumeStep, OtherStep

LEMMA WorkerType ==
  ASSUME TypeOK, Work \/ TaskEnds
  PROVE  TypeOK'
<1> USE DEF TypeOK, modeVars, lockVars, semVars, vmVars, workerVars, callerVars,
      Modes, WorkerPlaces, HoldsP, HoldsC, Gone, Ending
<1>1. CASE TaskEnds  BY <1>1 DEF TaskEnds
<1>2. CASE WorkerStart  BY <1>2 DEF WorkerStart, Step
<1>3. CASE WorkerEvent
  <2>1. FlagsOK'  BY <1>3, Zenon DEF FlagsOK, WorkerEvent, Step
  <2>2. OthersOK'  BY <1>3 DEF OthersOK, WorkerEvent, Step
  <2> QED  BY <2>1, <2>2, TypeParts, Zenon DEF FlagsOK, OthersOK
<1>4. CASE StateCheck  BY <1>4 DEF StateCheck, QuietStep, Step
<1>5. CASE SetPaused  BY <1>5 DEF SetPaused, SetMode, Step
<1>6. CASE ReleasePaused  BY <1>6 DEF ReleasePaused, Release, Step
<1>7. CASE HoldPaused  BY <1>7 DEF HoldPaused, HoldTest, QuietStep, Step
<1>8. CASE WaitPaused  BY <1>8 DEF WaitPaused, HoldWait, Step
<1>9. CASE LockPaused  BY <1>9 DEF LockPaused, Acquire, Step
<1>10. CASE ResumedFromPause  BY <1>10 DEF ResumedFromPause, QuietStep, Step
<1>11. CASE ChangingExecMode  BY <1>11 DEF ChangingExecMode, Step
<1>12. CASE OnSuspendInThread
  <2>1. FlagsOK'  BY <1>12, Zenon DEF FlagsOK, OnSuspendInThread, Step
  <2>2. OthersOK'  BY <1>12 DEF OthersOK, OnSuspendInThread, Step
  <2> QED  BY <2>1, <2>2, TypeParts, Zenon DEF FlagsOK, OthersOK
<1>13. CASE SetClosed  BY <1>13 DEF SetClosed, SetMode, Step
<1>14. CASE ReleaseClosed  BY <1>14 DEF ReleaseClosed, Release, Step
<1>15. CASE HoldClosed  BY <1>15 DEF HoldClosed, HoldTest, QuietStep, Step
<1>16. CASE WaitClosed  BY <1>16 DEF WaitClosed, HoldWait, Step
<1>17. CASE LockClosed  BY <1>17 DEF LockClosed, Acquire, Step
<1>18. CASE OnResumeInThread  BY <1>18 DEF OnResumeInThread, Step
<1>19. CASE ResetAsNeeded
  <2>1. FlagsOK'  BY <1>19, Zenon DEF FlagsOK, ResetAsNeeded, Step
  <2>2. OthersOK'  BY <1>19 DEF OthersOK, ResetAsNeeded, Step
  <2> QED  BY <2>1, <2>2, TypeParts, Zenon DEF FlagsOK, OthersOK
<1>20. CASE DoCpuExecute  BY <1>20 DEF DoCpuExecute, Step
<1>21. CASE ExitCpuExecute  BY <1>21 DEF ExitCpuExecute, QuietStep, Step
<1>22. CASE CleanupCore  BY <1>22 DEF CleanupCore, SetMode, Step
<1>27. CASE CleanupMachine
  <2>1. FlagsOK'  BY <1>27, Zenon DEF FlagsOK, CleanupMachine, Step
  <2>2. OthersOK'  BY <1>27 DEF OthersOK, CleanupMachine, Step
  <2> QED  BY <2>1, <2>2, TypeParts, Zenon DEF FlagsOK, OthersOK
<1>28. CASE CleanupReset
  <2>1. FlagsOK'  BY <1>28, Zenon DEF FlagsOK, CleanupReset, Step
  <2>2. OthersOK'  BY <1>28 DEF OthersOK, CleanupReset, Step
  <2> QED  BY <2>1, <2>2, TypeParts, Zenon DEF FlagsOK, OthersOK
<1>29. CASE CleanupPlugins
  <2>1. FlagsOK'  BY <1>29, Zenon DEF FlagsOK, CleanupPlugins, Step
  <2>2. OthersOK'  BY <1>29 DEF OthersOK, CleanupPlugins, Step
  <2> QED  BY <2>1, <2>2, TypeParts, Zenon DEF FlagsOK, OthersOK
<1>23. CASE CleanupBase  BY <1>23 DEF CleanupBase, SetMode, Step
<1>24. CASE CleanupRelease  BY <1>24 DEF CleanupRelease, Release, Step
<1>25. CASE CleanupMode  BY <1>25 DEF CleanupMode, SetMode, Step
<1>26. CASE ThreadEnds
  <2>1. FlagsOK'  BY <1>26, Zenon DEF FlagsOK, ThreadEnds, Step
  <2>2. OthersOK'  BY <1>26 DEF OthersOK, ThreadEnds, Step
  <2> QED  BY <2>1, <2>2, TypeParts, Zenon DEF FlagsOK, OthersOK
<1> QED  BY <1>1, <1>2, <1>3, <1>4, <1>5, <1>6, <1>7, <1>8, <1>9, <1>10, <1>11,
      <1>12, <1>13, <1>14, <1>15, <1>16, <1>17, <1>18, <1>19, <1>20, <1>21,
      <1>22, <1>23, <1>24, <1>25, <1>26, <1>27, <1>28, <1>29 DEF Work

-----------------------------------------------------------------------------
(* Mutual exclusion of the callers on m_ExecModeMutex *)

LEMMA CallerMutex ==
  ASSUME TypeOK, MutexInv, NEW c \in Callers, Begin(c) \/ CallerStep(c)
  PROVE  MutexInv'
<1> USE SysThreadAssumption DEF TypeOK, MutexInv, Inside, modeVars, lockVars,
      semVars, vmVars, workerVars, callerVars
<1>1. CASE Begin(c)  BY <1>1 DEF Begin, FirstPlace, AllCalls
<1>2. CASE SuspendCheck(c)
  BY <1>2 DEF SuspendCheck, QuietReturn, QuietGo, Return, Go
<1>34. CASE SuspendMode(c)
  BY <1>34 DEF SuspendMode, QuietReturn, QuietGo, Return, Go
<1>3. CASE SuspendLock(c)  BY <1>3 DEF SuspendLock, Lock, Go
<1>4. CASE SuspendSwitch(c)
  BY <1>4 DEF SuspendSwitch, UnlockReturn, Return, QuietGo, Go
<1>5. CASE SuspendOpened(c)  BY <1>5 DEF SuspendOpened, WriteMode, Go
<1>6. CASE SuspendPaused(c)  BY <1>6 DEF SuspendPaused, WriteMode, Go
<1>7. CASE SuspendToken(c)  BY <1>7 DEF SuspendToken, Go
<1>8. CASE SuspendChanged(c)  BY <1>8 DEF SuspendChanged, Go
<1>9. CASE SuspendPost(c)  BY <1>9 DEF SuspendPost, Go, Return
<1>10. CASE SuspendRun(c)  BY <1>10 DEF SuspendRun, QuietReturn, Return
<1>11. CASE ResetFlags(c)  BY <1>11 DEF ResetFlags, Return
<1>12. CASE PauseCheck(c)
  BY <1>12 DEF PauseCheck, QuietReturn, QuietGo, Return, Go
<1>35. CASE PauseMode(c)
  BY <1>35 DEF PauseMode, QuietReturn, QuietGo, Return, Go
<1>13. CASE PauseLock(c)  BY <1>13 DEF PauseLock, Lock, Go
<1>14. CASE PauseRead(c)
  BY <1>14 DEF PauseRead, UnlockReturn, Return, QuietGo, Go
<1>15. CASE PauseWrite(c)  BY <1>15 DEF PauseWrite, WriteMode, Go
<1>16. CASE PausePost(c)  BY <1>16 DEF PausePost, Go
<1>17. CASE PauseRun(c)  BY <1>17 DEF PauseRun, QuietReturn, Return
<1>18. CASE ResumeCheck(c)
  BY <1>18 DEF ResumeCheck, QuietReturn, QuietGo, Return, Go
<1>19. CASE ResumeLock(c)  BY <1>19 DEF ResumeLock, Lock, Go
<1>20. CASE ResumeSwitch(c)
  BY <1>20 DEF ResumeSwitch, UnlockReturn, Return, QuietGo, Go
<1>21. CASE ResumeStart(c)  BY <1>21 DEF ResumeStart, QuietGo, Go
<1>22. CASE ResumeStarted(c)  BY <1>22 DEF ResumeStarted, Go
<1>23. CASE ResumeEvent(c)  BY <1>23 DEF ResumeEvent, Go
<1>24. CASE ResumeMade(c)
  BY <1>24 DEF ResumeMade, UnlockReturn, Return, QuietGo, Go
<1>25. CASE ResumeRun(c)  BY <1>25 DEF ResumeRun, QuietGo, Go
<1>26. CASE ResumeAgain(c)
  BY <1>26 DEF ResumeAgain, UnlockReturn, Return, QuietGo, Go
<1>27. CASE ResumeReady(c)  BY <1>27 DEF ResumeReady, Go
<1>28. CASE ResumeOpen(c)  BY <1>28 DEF ResumeOpen, WriteMode, Go
<1>29. CASE ResumePost(c)  BY <1>29 DEF ResumePost, Return
<1>30. CASE UploadCheck(c)
  BY <1>30 DEF UploadCheck, QuietReturn, QuietGo, Return, Go, IsPaused
<1>31. CASE UploadCopy(c)  BY <1>31 DEF UploadCopy, Return
<1>32. CASE CancelLock(c)  BY <1>32 DEF CancelLock, QuietReturn, Return, Go
<1>33. CASE CancelWait(c)  BY <1>33 DEF CancelWait, Return
<1> QED  BY <1>1, <1>2, <1>3, <1>4, <1>5, <1>6, <1>7, <1>8, <1>9, <1>10, <1>11,
      <1>12, <1>13, <1>14, <1>15, <1>16, <1>17, <1>18, <1>19, <1>20, <1>21,
      <1>22, <1>23, <1>24, <1>25, <1>26, <1>27, <1>28, <1>29, <1>30, <1>31,
      <1>32, <1>33, <1>34, <1>35
      DEF CallerStep, SuspendStep, PauseStep, ResumeStep, OtherStep

\* The worker touches neither the callers nor their mutex.
LEMMA WorkerKeeps ==
  ASSUME Work \/ TaskEnds
  PROVE  UNCHANGED <<callerVars, m_ExecModeMutex>>
<1> USE DEF modeVars, lockVars, semVars, vmVars, workerVars, callerVars
<1>1. CASE TaskEnds  BY <1>1 DEF TaskEnds
<1>2. CASE WorkerStart  BY <1>2 DEF WorkerStart, Step
<1>3. CASE WorkerEvent  BY <1>3 DEF WorkerEvent, Step
<1>4. CASE StateCheck  BY <1>4 DEF StateCheck, QuietStep, Step
<1>5. CASE SetPaused  BY <1>5 DEF SetPaused, SetMode, Step
<1>6. CASE ReleasePaused  BY <1>6 DEF ReleasePaused, Release, Step
<1>7. CASE HoldPaused  BY <1>7 DEF HoldPaused, HoldTest, QuietStep, Step
<1>8. CASE WaitPaused  BY <1>8 DEF WaitPaused, HoldWait, Step
<1>9. CASE LockPaused  BY <1>9 DEF LockPaused, Acquire, Step
<1>10. CASE ResumedFromPause  BY <1>10 DEF ResumedFromPause, QuietStep, Step
<1>11. CASE ChangingExecMode  BY <1>11 DEF ChangingExecMode, Step
<1>12. CASE OnSuspendInThread  BY <1>12 DEF OnSuspendInThread, Step
<1>13. CASE SetClosed  BY <1>13 DEF SetClosed, SetMode, Step
<1>14. CASE ReleaseClosed  BY <1>14 DEF ReleaseClosed, Release, Step
<1>15. CASE HoldClosed  BY <1>15 DEF HoldClosed, HoldTest, QuietStep, Step
<1>16. CASE WaitClosed  BY <1>16 DEF WaitClosed, HoldWait, Step
<1>17. CASE LockClosed  BY <1>17 DEF LockClosed, Acquire, Step
<1>18. CASE OnResumeInThread  BY <1>18 DEF OnResumeInThread, Step
<1>19. CASE ResetAsNeeded  BY <1>19 DEF ResetAsNeeded, Step
<1>20. CASE DoCpuExecute  BY <1>20 DEF DoCpuExecute, Step
<1>21. CASE ExitCpuExecute  BY <1>21 DEF ExitCpuExecute, QuietStep, Step
<1>22. CASE CleanupCore  BY <1>22 DEF CleanupCore, SetMode, Step
<1>27. CASE CleanupMachine  BY <1>27 DEF CleanupMachine, Step
<1>28. CASE CleanupReset  BY <1>28 DEF CleanupReset, Step
<1>29. CASE CleanupPlugins  BY <1>29 DEF CleanupPlugins, Step
<1>23. CASE CleanupBase  BY <1>23 DEF CleanupBase, SetMode, Step
<1>24. CASE CleanupRelease  BY <1>24 DEF CleanupRelease, Release, Step
<1>25. CASE CleanupMode  BY <1>25 DEF CleanupMode, SetMode, Step
<1>26. CASE ThreadEnds  BY <1>26 DEF ThreadEnds, Step
<1> QED  BY <1>1, <1>2, <1>3, <1>4, <1>5, <1>6, <1>7, <1>8, <1>9, <1>10, <1>11,
      <1>12, <1>13, <1>14, <1>15, <1>16, <1>17, <1>18, <1>19, <1>20, <1>21,
      <1>22, <1>23, <1>24, <1>25, <1>26, <1>27, <1>28, <1>29 DEF Work

-----------------------------------------------------------------------------
(* The mode, the lock and the plugins against the place of the worker *)

LEMMA CallerThread ==
  ASSUME SysInv, NEW c \in Callers, Begin(c) \/ CallerStep(c)
  PROVE  ThreadInv'
<1> USE SysThreadAssumption DEF SysInv, TypeOK, MutexInv, Inside, ThreadInv,
      RunningInv, LockInv, PluginInv, FirstInv, Starting, NoThreadInv, StartInv,
      SafelyPaused, Gone, modeVars, lockVars, semVars, vmVars, workerVars,
      callerVars
<1>1. CASE Begin(c)  BY <1>1 DEF Begin, FirstPlace, AllCalls
<1>2. CASE SuspendCheck(c)
  BY <1>2 DEF SuspendCheck, QuietReturn, QuietGo, Return, Go
<1>34. CASE SuspendMode(c)
  BY <1>34 DEF SuspendMode, QuietReturn, QuietGo, Return, Go
<1>3. CASE SuspendLock(c)  BY <1>3 DEF SuspendLock, Lock, Go
<1>4. CASE SuspendSwitch(c)
  BY <1>4 DEF SuspendSwitch, UnlockReturn, Return, QuietGo, Go
<1>5. CASE SuspendOpened(c)  BY <1>5 DEF SuspendOpened, WriteMode, Go
<1>6. CASE SuspendPaused(c)  BY <1>6 DEF SuspendPaused, WriteMode, Go
<1>7. CASE SuspendToken(c)  BY <1>7 DEF SuspendToken, Go
<1>8. CASE SuspendChanged(c)  BY <1>8 DEF SuspendChanged, Go
<1>9. CASE SuspendPost(c)  BY <1>9 DEF SuspendPost, Go, Return
<1>10. CASE SuspendRun(c)  BY <1>10 DEF SuspendRun, QuietReturn, Return
<1>11. CASE ResetFlags(c)  BY <1>11 DEF ResetFlags, Return
<1>12. CASE PauseCheck(c)
  BY <1>12 DEF PauseCheck, QuietReturn, QuietGo, Return, Go
<1>35. CASE PauseMode(c)
  BY <1>35 DEF PauseMode, QuietReturn, QuietGo, Return, Go
<1>13. CASE PauseLock(c)  BY <1>13 DEF PauseLock, Lock, Go
<1>14. CASE PauseRead(c)
  BY <1>14 DEF PauseRead, UnlockReturn, Return, QuietGo, Go
<1>15. CASE PauseWrite(c)  BY <1>15 DEF PauseWrite, WriteMode, Go
<1>16. CASE PausePost(c)  BY <1>16 DEF PausePost, Go
<1>17. CASE PauseRun(c)  BY <1>17 DEF PauseRun, QuietReturn, Return
<1>18. CASE ResumeCheck(c)
  BY <1>18 DEF ResumeCheck, QuietReturn, QuietGo, Return, Go
<1>19. CASE ResumeLock(c)  BY <1>19 DEF ResumeLock, Lock, Go
<1>20. CASE ResumeSwitch(c)
  BY <1>20 DEF ResumeSwitch, UnlockReturn, Return, QuietGo, Go
<1>21. CASE ResumeStart(c)  BY <1>21 DEF ResumeStart, QuietGo, Go
<1>22. CASE ResumeStarted(c)  BY <1>22 DEF ResumeStarted, Go
<1>23. CASE ResumeEvent(c)  BY <1>23 DEF ResumeEvent, Go
<1>24. CASE ResumeMade(c)
  BY <1>24 DEF ResumeMade, UnlockReturn, Return, QuietGo, Go
<1>25. CASE ResumeRun(c)  BY <1>25 DEF ResumeRun, QuietGo, Go
<1>26. CASE ResumeAgain(c)
  BY <1>26 DEF ResumeAgain, UnlockReturn, Return, QuietGo, Go
<1>27. CASE ResumeReady(c)  BY <1>27 DEF ResumeReady, Go
<1>28. CASE ResumeOpen(c)  BY <1>28 DEF ResumeOpen, WriteMode, Go
<1>29. CASE ResumePost(c)  BY <1>29 DEF ResumePost, Return
<1>30. CASE UploadCheck(c)
  BY <1>30 DEF UploadCheck, QuietReturn, QuietGo, Return, Go, IsPaused
<1>31. CASE UploadCopy(c)  BY <1>31 DEF UploadCopy, Return
<1>32. CASE CancelLock(c)  BY <1>32 DEF CancelLock, QuietReturn, Return, Go
<1>33. CASE CancelWait(c)  BY <1>33 DEF CancelWait, Return
<1> QED  BY <1>1, <1>2, <1>3, <1>4, <1>5, <1>6, <1>7, <1>8, <1>9, <1>10, <1>11,
      <1>12, <1>13, <1>14, <1>15, <1>16, <1>17, <1>18, <1>19, <1>20, <1>21,
      <1>22, <1>23, <1>24, <1>25, <1>26, <1>27, <1>28, <1>29, <1>30, <1>31,
      <1>32, <1>33, <1>34, <1>35
      DEF CallerStep, SuspendStep, PauseStep, ResumeStep, OtherStep

LEMMA WorkerThread ==
  ASSUME SysInv, Work \/ TaskEnds
  PROVE  ThreadInv'
<1> USE SysThreadAssumption DEF SysInv, TypeOK, MutexInv, Inside, ThreadInv,
      RunningInv, LockInv, PluginInv, FirstInv, Starting, NoThreadInv, StartInv,
      SafelyPaused, Gone, modeVars, lockVars, semVars, vmVars, workerVars,
      callerVars
<1>1. CASE TaskEnds  BY <1>1 DEF TaskEnds
<1>2. CASE WorkerStart  BY <1>2 DEF WorkerStart, Step
<1>3. CASE WorkerEvent  BY <1>3 DEF WorkerEvent, Step
<1>4. CASE StateCheck  BY <1>4 DEF StateCheck, QuietStep, Step
<1>5. CASE SetPaused  BY <1>5 DEF SetPaused, SetMode, Step
<1>6. CASE ReleasePaused  BY <1>6 DEF ReleasePaused, Release, Step
<1>7. CASE HoldPaused  BY <1>7 DEF HoldPaused, HoldTest, QuietStep, Step
<1>8. CASE WaitPaused  BY <1>8 DEF WaitPaused, HoldWait, Step
<1>9. CASE LockPaused  BY <1>9 DEF LockPaused, Acquire, Step
<1>10. CASE ResumedFromPause  BY <1>10 DEF ResumedFromPause, QuietStep, Step
<1>11. CASE ChangingExecMode  BY <1>11 DEF ChangingExecMode, Step
<1>12. CASE OnSuspendInThread  BY <1>12 DEF OnSuspendInThread, Step
<1>13. CASE SetClosed  BY <1>13 DEF SetClosed, SetMode, Step
<1>14. CASE ReleaseClosed  BY <1>14 DEF ReleaseClosed, Release, Step
<1>15. CASE HoldClosed  BY <1>15 DEF HoldClosed, HoldTest, QuietStep, Step
<1>16. CASE WaitClosed  BY <1>16 DEF WaitClosed, HoldWait, Step
<1>17. CASE LockClosed  BY <1>17 DEF LockClosed, Acquire, Step
<1>18. CASE OnResumeInThread  BY <1>18 DEF OnResumeInThread, Step
<1>19. CASE ResetAsNeeded  BY <1>19 DEF ResetAsNeeded, Step
<1>20. CASE DoCpuExecute  BY <1>20 DEF DoCpuExecute, Step
<1>21. CASE ExitCpuExecute  BY <1>21 DEF ExitCpuExecute, QuietStep, Step
<1>22. CASE CleanupCore  BY <1>22 DEF CleanupCore, SetMode, Step
<1>27. CASE CleanupMachine  BY <1>27 DEF CleanupMachine, Step
<1>28. CASE CleanupReset  BY <1>28 DEF CleanupReset, Step
<1>29. CASE CleanupPlugins  BY <1>29 DEF CleanupPlugins, Step
<1>23. CASE CleanupBase  BY <1>23 DEF CleanupBase, SetMode, Step
<1>24. CASE CleanupRelease  BY <1>24 DEF CleanupRelease, Release, Step
<1>25. CASE CleanupMode  BY <1>25 DEF CleanupMode, SetMode, Step
<1>26. CASE ThreadEnds  BY <1>26 DEF ThreadEnds, Step
<1> QED  BY <1>1, <1>2, <1>3, <1>4, <1>5, <1>6, <1>7, <1>8, <1>9, <1>10, <1>11,
      <1>12, <1>13, <1>14, <1>15, <1>16, <1>17, <1>18, <1>19, <1>20, <1>21,
      <1>22, <1>23, <1>24, <1>25, <1>26, <1>27, <1>28, <1>29 DEF Work

-----------------------------------------------------------------------------
(* The theorems *)

LEMMA InitInv == Init => SysInv
<1> SUFFICES ASSUME Init PROVE SysInv
  OBVIOUS
<1>1. FlagsOK  BY Zenon DEF Init, FlagsOK
<1>2. OthersOK
  BY DEF Init, OthersOK, Modes, AllCalls, WorkerPlaces, Gone, CallerPlaces
<1>3. MutexInv  BY DEF Init, MutexInv, Inside
<1>4. ThreadInv
  BY DEF Init, ThreadInv, RunningInv, LockInv, PluginInv, FirstInv,
         NoThreadInv, StartInv, SafelyPaused, Gone
<1> QED  BY <1>1, <1>2, <1>3, <1>4, TypeParts DEF SysInv

LEMMA StepInv == SysInv /\ [Next]_vars => SysInv'
<1> SUFFICES ASSUME SysInv, [Next]_vars PROVE SysInv'
  OBVIOUS
<1>1. CASE \E c \in Callers : Begin(c) \/ CallerStep(c)
  <2>1. PICK c \in Callers : Begin(c) \/ CallerStep(c)  BY <1>1
  <2> QED  BY <2>1, CallerType, CallerMutex, CallerThread DEF SysInv
<1>2. CASE Work \/ TaskEnds
  <2>1. TypeOK' /\ ThreadInv'  BY <1>2, WorkerType, WorkerThread DEF SysInv
  <2>2. MutexInv'
    BY <1>2, WorkerKeeps DEF SysInv, MutexInv, callerVars
  <2> QED  BY <2>1, <2>2 DEF SysInv
<1>3. CASE UNCHANGED vars
  <2> USE <1>3 DEF vars, modeVars, lockVars, semVars, vmVars, workerVars,
                   callerVars
  <2>1. TypeOK'  BY ZenonT(60) DEF SysInv, TypeOK
  <2>2. MutexInv'  BY DEF SysInv, MutexInv
  <2>3. ThreadInv'
    BY DEF SysInv, ThreadInv, RunningInv, LockInv, PluginInv, FirstInv,
           NoThreadInv, StartInv, SafelyPaused
  <2> QED  BY <2>1, <2>2, <2>3 DEF SysInv
<1> QED  BY <1>1, <1>2, <1>3 DEF Next

LEMMA Invariance == Spec => []SysInv
  BY InitInv, StepInv, PTL DEF Spec

\* Every variable keeps its type, whatever the callers call.
THEOREM SysTypeCorrect == Spec => []TypeOK
<1>1. SysInv => TypeOK  BY DEF SysInv
<1> QED  BY <1>1, Invariance, PTL

\* Callers exclude one another between the ScopedLock on m_ExecModeMutex and
\* the end of its scope, so no two of them are between the test of m_ExecMode
\* and its assignment.
THEOREM CallersExclude == Spec => []MutexInv
<1>1. SysInv => MutexInv  BY DEF SysInv
<1> QED  BY <1>1, Invariance, PTL

\* A mode of Closed or Paused, read by anybody at any time, means that the
\* worker is out of the emulation with its plugins closed or open.
THEOREM ModeIsSafe == Spec => []SafelyPaused
<1>1. SysInv => SafelyPaused  BY DEF SysInv, ThreadInv
<1> QED  BY <1>1, Invariance, PTL

\* The emulation runs only with its plugins open and m_RunningLock taken.
THEOREM RunsOnlyOpen == Spec => []RunsOpen
<1>1. SysInv => RunsOpen
  BY DEF SysInv, ThreadInv, RunningInv, LockInv, PluginInv, RunsOpen, Executing,
         Gone
<1> QED  BY <1>1, Invariance, PTL

\* OnStart's assertion holds: a thread is started in NoThreadYet only.
THEOREM StartAssertsHold == Spec => []StartAsserts
<1>1. SysInv => StartAsserts  BY DEF SysInv, ThreadInv, StartInv, StartAsserts
<1> QED  BY <1>1, Invariance, PTL

-----------------------------------------------------------------------------
(* One caller that waits for the last Resume to have woken the worker: the *)
(* executor thread, through which the program makes these calls.           *)

\* The worker between its states: it executes, or gets ready to.
Alive == {"check", "enter", "exec", "open", "reset"}

\* The worker has left its task, and is cleaning up the core, or has done so.
Cleaning == {"dieM", "dieR", "dieP"}
Cleaned == {"die2", "die3", "die4", "die5", "off"}

\* Where the worker can be in each mode, and in which call the odd places are.
PlaceInv ==
  /\ m_ExecMode = "Opened"
       => wpc \in Alive \cup HoldsP \cup HoldsC \cup {"relC", "wokeP", "die"}
  /\ m_ExecMode = "Closing"
       => wpc \in Alive \cup HoldsP \cup Cleaning \cup Cleaned
                    \cup {"event", "close", "closed", "wokeP", "die"}
  /\ m_ExecMode = "Pausing"
       => wpc \in Alive \cup Cleaning \cup Cleaned \cup {"pausing", "die"}

WaitInv ==
  \A c \in Callers :
    /\ m_ExecMode = "Opened" /\ wpc \in HoldsP \cup HoldsC \cup {"relC", "wokeP"}
         => pc[c] \in {"idle", "r_post"}
    /\ m_ExecMode = "Closing" /\ wpc \in HoldsP \cup {"wokeP"}
         => pc[c] \in {"s_token", "s_wait"}
    /\ m_ExecMode = "Pausing" /\ wpc \notin {"die4", "die5", "off"}
         => pc[c] \in {"p_post", "p_run"}
    /\ wpc = "relP" => pc[c] \in {"p_post", "p_run"}

\* Only Cancel cancels, and it waits for the end; a worker that ends by itself
\* does so with its lock, and with a mode that promises nothing.
EndInv ==
  /\ cancelled => wpc \in {"die5", "off"} \/ \A c \in Callers : pc[c] = "c_wait"
  /\ wpc \in Cleaning \cup {"die", "die2", "die3"}
       => m_RunningLock = "worker" \/ cancelled
  /\ wpc = "die" /\ m_ExecMode \in {"Closed", "Paused"} => cancelled
  /\ wpc \in Cleaned \cup {"boot", "event"} => ~pluginsOpen

Stopped ==
  \/ m_ExecMode = "Paused" /\ wpc \in {"holdP", "waitP"}
  \/ m_ExecMode = "Closed" /\ wpc \in {"relC", "holdC", "waitC"}
  \/ wpc \in {"die3", "die4", "die5", "off"}

\* What each place of a call knows of the worker.
CallInv ==
  \A c \in Callers :
    /\ pc[c] \in {"u_copy", "x_flags"} => Stopped
    /\ pc[c] \in {"r_ready", "r_open"}
         => Stopped /\ m_ExecMode \in {"Paused", "Closed"}
    /\ pc[c] \in {"s_close", "p_write"}
         => m_ExecMode = "Opened" \/ wpc \in Cleaning \cup Cleaned
    /\ pc[c] = "s_change"
         => m_ExecMode = "Paused" \/ wpc \in Cleaning \cup Cleaned
    /\ pc[c] \in {"s_token", "s_wait", "s_post", "s_run"}
         => m_ExecMode \in {"Closing", "Closed"} \/ wpc \in Cleaning \cup Cleaned

\* ChangingExecMode has answered the Suspend that waits for it.
AnswerInv ==
  m_sem_ChangingExecMode > 0
    => /\ \A c \in Callers : pc[c] \in {"s_token", "s_wait"}
       /\ wpc \in {"close", "closed", "relC", "holdC", "waitC"}
       /\ m_sem_ChangingExecMode = 1

PromiseInv ==
  promise # "none"
    => /\ Stopped
       /\ \A c \in Callers :
            pc[c] \in {"idle", "x_flags", "p_check", "p_mode", "p_lock", "p_read", "p_post",
                       "p_run", "u_check", "u_copy"}
       /\ promise = "closed" => ~pluginsOpen

ResetInv ==
  m_resetVirtualMachine
    => /\ wpc \notin Executing
       /\ wpc = "check" => ~pluginsOpen

SoleInv ==
  /\ PlaceInv /\ WaitInv /\ EndInv /\ CallInv
  /\ AnswerInv /\ PromiseInv /\ ResetInv

LEMMA CallerSole ==
  ASSUME NEW c, Callers = {c}, Patient, SysInv, SoleInv, Begin(c) \/
      CallerStep(c)
  PROVE  SoleInv'
<1> USE SysThreadAssumption DEF SysInv, TypeOK, MutexInv, ThreadInv, RunningInv,
      LockInv, PluginInv, FirstInv, Starting, NoThreadInv, StartInv,
      SafelyPaused,
      SoleInv, PlaceInv, WaitInv, EndInv, CallInv, AnswerInv, PromiseInv,
      ResetInv, Stopped, Alive, Cleaning, Cleaned, HoldsP, HoldsC, Gone,
      Executing,
      modeVars, lockVars, semVars, vmVars, workerVars, callerVars
<1>1. CASE Begin(c)  BY <1>1 DEF Begin, FirstPlace, AllCalls, Waking, Moving
<1>2. CASE SuspendCheck(c)
  BY <1>2 DEF SuspendCheck, QuietReturn, QuietGo, Return, Go
<1>34. CASE SuspendMode(c)
  BY <1>34 DEF SuspendMode, QuietReturn, QuietGo, Return, Go
<1>3. CASE SuspendLock(c)  BY <1>3 DEF SuspendLock, Lock, Go
<1>4. CASE SuspendSwitch(c)
  BY <1>4 DEF SuspendSwitch, UnlockReturn, Return, QuietGo, Go, SuspendPlaces,
      Modes
<1>5. CASE SuspendOpened(c)  BY <1>5 DEF SuspendOpened, WriteMode, Go
<1>6. CASE SuspendPaused(c)  BY <1>6 DEF SuspendPaused, WriteMode, Go
<1>7. CASE SuspendToken(c)  BY <1>7 DEF SuspendToken, Go
<1>8. CASE SuspendChanged(c)  BY <1>8 DEF SuspendChanged, Go
<1>9. CASE SuspendPost(c)  BY <1>9 DEF SuspendPost, Go, Return
<1>10. CASE SuspendRun(c)  BY <1>10 DEF SuspendRun, QuietReturn, Return
<1>11. CASE ResetFlags(c)  BY <1>11 DEF ResetFlags, Return
<1>12. CASE PauseCheck(c)
  BY <1>12 DEF PauseCheck, QuietReturn, QuietGo, Return, Go
<1>35. CASE PauseMode(c)
  BY <1>35 DEF PauseMode, QuietReturn, QuietGo, Return, Go
<1>13. CASE PauseLock(c)  BY <1>13 DEF PauseLock, Lock, Go
<1>14. CASE PauseRead(c)
  BY <1>14 DEF PauseRead, UnlockReturn, Return, QuietGo, Go
<1>15. CASE PauseWrite(c)  BY <1>15 DEF PauseWrite, WriteMode, Go
<1>16. CASE PausePost(c)  BY <1>16 DEF PausePost, Go
<1>17. CASE PauseRun(c)
  BY <1>17 DEF PauseRun, QuietReturn, Return, SuspendPlaces, Modes,
      WorkerPlaces, Ending
<1>18. CASE ResumeCheck(c)
  BY <1>18 DEF ResumeCheck, QuietReturn, QuietGo, Return, Go, SuspendPlaces
<1>19. CASE ResumeLock(c)  BY <1>19 DEF ResumeLock, Lock, Go
<1>20. CASE ResumeSwitch(c)
  BY <1>20 DEF ResumeSwitch, UnlockReturn, Return, QuietGo, Go, SuspendPlaces,
      Modes
<1>21. CASE ResumeStart(c)  BY <1>21 DEF ResumeStart, QuietGo, Go
<1>22. CASE ResumeStarted(c)  BY <1>22 DEF ResumeStarted, Go
<1>23. CASE ResumeEvent(c)  BY <1>23 DEF ResumeEvent, Go
<1>24. CASE ResumeMade(c)
  BY <1>24 DEF ResumeMade, UnlockReturn, Return, QuietGo, Go, SuspendPlaces
<1>25. CASE ResumeRun(c)  BY <1>25 DEF ResumeRun, QuietGo, Go
<1>26. CASE ResumeAgain(c)
  BY <1>26 DEF ResumeAgain, UnlockReturn, Return, QuietGo, Go, SuspendPlaces
<1>27. CASE ResumeReady(c)  BY <1>27 DEF ResumeReady, Go
<1>28. CASE ResumeOpen(c)  BY <1>28 DEF ResumeOpen, WriteMode, Go
<1>29. CASE ResumePost(c)  BY <1>29 DEF ResumePost, Return, SuspendPlaces
<1>30. CASE UploadCheck(c)
  BY <1>30 DEF UploadCheck, QuietReturn, QuietGo, Return, Go, IsPaused,
      SuspendPlaces
<1>31. CASE UploadCopy(c)  BY <1>31 DEF UploadCopy, Return
<1>32. CASE CancelLock(c)  BY <1>32 DEF CancelLock, QuietReturn, Return, Go
<1>33. CASE CancelWait(c)  BY <1>33 DEF CancelWait, Return
<1> QED  BY <1>1, <1>2, <1>3, <1>4, <1>5, <1>6, <1>7, <1>8, <1>9, <1>10, <1>11,
      <1>12, <1>13, <1>14, <1>15, <1>16, <1>17, <1>18, <1>19, <1>20, <1>21,
      <1>22, <1>23, <1>24, <1>25, <1>26, <1>27, <1>28, <1>29, <1>30, <1>31,
      <1>32, <1>33, <1>34, <1>35
      DEF CallerStep, SuspendStep, PauseStep, ResumeStep, OtherStep

LEMMA WorkerSole ==
  ASSUME NEW c, Callers = {c}, Patient, SysInv, SoleInv, Work \/ TaskEnds
  PROVE  SoleInv'
<1> USE SysThreadAssumption DEF SysInv, TypeOK, MutexInv, ThreadInv, RunningInv,
      LockInv, PluginInv, FirstInv, Starting, NoThreadInv, StartInv,
      SafelyPaused,
      SoleInv, PlaceInv, WaitInv, EndInv, CallInv, AnswerInv, PromiseInv,
      ResetInv, Stopped, Alive, Cleaning, Cleaned, HoldsP, HoldsC, Gone,
      Executing,
      modeVars, lockVars, semVars, vmVars, workerVars, callerVars
<1>1. CASE TaskEnds  BY <1>1 DEF TaskEnds
<1>2. CASE WorkerStart  BY <1>2 DEF WorkerStart, Step
<1>3. CASE WorkerEvent  BY <1>3 DEF WorkerEvent, Step
<1>4. CASE StateCheck  BY <1>4 DEF StateCheck, QuietStep, Step
<1>5. CASE SetPaused  BY <1>5 DEF SetPaused, SetMode, Step, Modes
<1>6. CASE ReleasePaused  BY <1>6 DEF ReleasePaused, Release, Step
<1>7. CASE HoldPaused  BY <1>7 DEF HoldPaused, HoldTest, QuietStep, Step
<1>8. CASE WaitPaused  BY <1>8 DEF WaitPaused, HoldWait, Step
<1>9. CASE LockPaused  BY <1>9 DEF LockPaused, Acquire, Step
<1>10. CASE ResumedFromPause  BY <1>10 DEF ResumedFromPause, QuietStep, Step
<1>11. CASE ChangingExecMode  BY <1>11 DEF ChangingExecMode, Step
<1>12. CASE OnSuspendInThread  BY <1>12 DEF OnSuspendInThread, Step
<1>13. CASE SetClosed  BY <1>13 DEF SetClosed, SetMode, Step
<1>14. CASE ReleaseClosed  BY <1>14 DEF ReleaseClosed, Release, Step
<1>15. CASE HoldClosed  BY <1>15 DEF HoldClosed, HoldTest, QuietStep, Step
<1>16. CASE WaitClosed  BY <1>16 DEF WaitClosed, HoldWait, Step
<1>17. CASE LockClosed  BY <1>17 DEF LockClosed, Acquire, Step
<1>18. CASE OnResumeInThread  BY <1>18 DEF OnResumeInThread, Step
<1>19. CASE ResetAsNeeded  BY <1>19 DEF ResetAsNeeded, Step
<1>20. CASE DoCpuExecute  BY <1>20 DEF DoCpuExecute, Step
<1>21. CASE ExitCpuExecute  BY <1>21 DEF ExitCpuExecute, QuietStep, Step
<1>22. CASE CleanupCore  BY <1>22 DEF CleanupCore, SetMode, Step
<1>27. CASE CleanupMachine  BY <1>27 DEF CleanupMachine, Step
<1>28. CASE CleanupReset  BY <1>28 DEF CleanupReset, Step
<1>29. CASE CleanupPlugins  BY <1>29 DEF CleanupPlugins, Step
<1>23. CASE CleanupBase  BY <1>23 DEF CleanupBase, SetMode, Step
<1>24. CASE CleanupRelease  BY <1>24 DEF CleanupRelease, Release, Step
<1>25. CASE CleanupMode  BY <1>25 DEF CleanupMode, SetMode, Step
<1>26. CASE ThreadEnds  BY <1>26 DEF ThreadEnds, Step
<1> QED  BY <1>1, <1>2, <1>3, <1>4, <1>5, <1>6, <1>7, <1>8, <1>9, <1>10, <1>11,
      <1>12, <1>13, <1>14, <1>15, <1>16, <1>17, <1>18, <1>19, <1>20, <1>21,
      <1>22, <1>23, <1>24, <1>25, <1>26, <1>27, <1>28, <1>29 DEF Work

LEMMA SoleInvariance ==
  ASSUME NEW c, Callers = {c}, Patient
  PROVE  Spec => []SoleInv
<1>1. Init => SoleInv
  <2> SUFFICES ASSUME Init PROVE SoleInv  OBVIOUS
  <2>1. PlaceInv /\ WaitInv /\ EndInv /\ CallInv
    BY DEF Init, PlaceInv, WaitInv, EndInv, CallInv, Cleaning, Cleaned
  <2>2. AnswerInv /\ PromiseInv /\ ResetInv
    BY DEF Init, AnswerInv, PromiseInv, ResetInv, Executing
  <2> QED  BY <2>1, <2>2 DEF SoleInv
<1>2. SysInv /\ SoleInv /\ [Next]_vars => SoleInv'
  <2> SUFFICES ASSUME SysInv, SoleInv, [Next]_vars PROVE SoleInv'
    OBVIOUS
  <2>1. CASE \E d \in Callers : Begin(d) \/ CallerStep(d)
    <3>1. Begin(c) \/ CallerStep(c)  BY <2>1
    <3> QED  BY <3>1, CallerSole
  <2>2. CASE Work \/ TaskEnds  BY <2>2, WorkerSole
  <2>3. CASE UNCHANGED vars
    BY <2>3 DEF vars, modeVars, lockVars, semVars, vmVars, workerVars,
           callerVars, SoleInv, PlaceInv, WaitInv, EndInv, CallInv, AnswerInv,
           PromiseInv, ResetInv, Stopped, Executing
  <2> QED  BY <2>1, <2>2, <2>3 DEF Next
<1> QED  BY <1>1, <1>2, Invariance, PTL DEF Spec

\* The promise of Pause and of a blocking Suspend is kept: with one thread
\* making the calls, as the executor makes them, and no call before the last
\* Resume has woken the worker, a worker said to be stopped is, whatever the
\* calls and however the worker ends.
THEOREM ReturnedMeansSuspended ==
  ASSUME NEW c, Callers = {c}, Patient
  PROVE  Spec => []ReturnMeansSuspended
<1>1. SoleInv => ReturnMeansSuspended
  BY DEF SoleInv, PromiseInv, Stopped, ReturnMeansSuspended, Suspended
<1> QED  BY <1>1, SoleInvariance, PTL

\* After a Reset, or the cleanup of a worker that ended, the machine is not run
\* before ResetAsNeeded has reset it.
THEOREM ResetFirst ==
  ASSUME NEW c, Callers = {c}, Patient
  PROVE  Spec => []ResetBeforeRun
<1>1. SoleInv => ResetBeforeRun
  BY DEF SoleInv, ResetInv, ResetBeforeRun
<1> QED  BY <1>1, SoleInvariance, PTL

\* UploadStateCopy writes the machine only while the worker is out of it.
THEOREM UploadsExclusive ==
  ASSUME NEW c, Callers = {c}, Patient
  PROVE  Spec => []UploadExclusive
<1>1. SoleInv => UploadExclusive
  BY DEF SoleInv, CallInv, Stopped, UploadExclusive, Suspended
<1> QED  BY <1>1, SoleInvariance, PTL
=============================================================================
