----------------------------- MODULE SysThread -----------------------------
(***************************************************************************)
(* The suspendable threads (pcsx2/System/SysThreadBase.cpp) with the core  *)
(* thread's overrides (SysCoreThread.cpp) on pxThread's start, cancel and  *)
(* cleanup (common/src/Utilities/ThreadTools.cpp).                         *)
(*                                                                         *)
(* Several callers start, pause, suspend, resume, reset and cancel one     *)
(* worker.  m_ExecMode is written by both sides with no common lock, so a  *)
(* test of it and the assignment that follows are separate steps.  A       *)
(* Mutex::Wait, which acquires and releases, is one step taken when the    *)
(* mutex is free.                                                          *)
(***************************************************************************)
EXTENDS Naturals, FiniteSets

CONSTANTS
  Callers,    \* the threads that control the worker
  Calls,      \* the calls they make
  Patient,    \* no call is made until the last Resume has woken the worker
  MayFail,    \* the worker's task may end by an exception
  MaxTokens   \* bound: posts outstanding on a semaphore when a call begins

AllCalls == {"Suspend", "SuspendAsync", "Pause", "Resume", "Reset",
             "Upload", "Cancel"}
Modes == {"NoThreadYet", "Closed", "Paused", "Opened", "Closing", "Pausing"}

ASSUME SysThreadAssumption ==
  /\ Calls \subseteq AllCalls
  /\ Patient \in BOOLEAN /\ MayFail \in BOOLEAN
  /\ MaxTokens \in Nat \ {0}
  /\ Callers \cap {"worker", "nobody"} = {}

VARIABLES
  m_ExecMode, m_running,
  m_ExecModeMutex, m_RunningLock, m_mtx_start,    \* the owner, or "nobody"
  m_sem_Resume, m_sem_ChangingExecMode, m_sem_event,
  pluginsOpen,            \* SysCorePlugins::Open / Close
  m_resetVirtualMachine, m_hasActiveMachine,
  cancelled,              \* pthread_cancel has been called on the worker
  wpc,                    \* where the worker is
  pc, call,               \* where each caller is, and in which call
  promise                 \* what the last call to return told its caller

modeVars   == <<m_ExecMode, m_running>>
lockVars   == <<m_ExecModeMutex, m_RunningLock, m_mtx_start>>
semVars    == <<m_sem_Resume, m_sem_ChangingExecMode, m_sem_event>>
vmVars     == <<pluginsOpen, m_resetVirtualMachine, m_hasActiveMachine>>
workerVars == <<cancelled, wpc>>
callerVars == <<pc, call, promise>>
vars == <<modeVars, lockVars, semVars, vmVars, workerVars, callerVars>>

\* The worker is in the holding pattern of a pause or of a close.
HoldsP == {"holdP", "waitP", "lockP"}
HoldsC == {"holdC", "waitC", "lockC"}
Gone   == {"off", "boot"}
Ending == {"die", "dieM", "dieR", "dieP", "die2", "die3", "die4", "die5"}

WorkerPlaces ==
  {"event", "check", "enter", "exec", "pausing", "relP", "wokeP", "close",
   "closed", "relC", "open", "reset"} \cup HoldsP \cup HoldsC \cup Gone \cup Ending

SuspendPlaces == {"s_check", "s_mode", "s_lock", "s_read", "s_close", "s_change",
                  "s_token", "s_wait", "s_post", "s_run"}
PausePlaces   == {"p_check", "p_mode", "p_lock", "p_read", "p_write", "p_post",
                  "p_run"}
ResumePlaces  == {"r_check", "r_lock", "r_read", "r_start", "r_started",
                  "r_event", "r_made", "r_run", "r_again", "r_ready", "r_open",
                  "r_post"}
CallerPlaces  == {"idle", "x_flags", "u_check", "u_copy", "c_lock", "c_wait"}
                   \cup SuspendPlaces \cup PausePlaces \cup ResumePlaces

TypeOK ==
  /\ m_ExecMode \in Modes /\ m_running \in BOOLEAN
  /\ m_ExecModeMutex \in Callers \cup {"nobody"}
  /\ m_RunningLock \in {"worker", "nobody"}
  /\ m_mtx_start \in Callers \cup {"nobody"}
  /\ m_sem_Resume \in Nat /\ m_sem_ChangingExecMode \in Nat
  /\ m_sem_event \in BOOLEAN
  /\ pluginsOpen \in BOOLEAN
  /\ m_resetVirtualMachine \in BOOLEAN /\ m_hasActiveMachine \in BOOLEAN
  /\ cancelled \in BOOLEAN
  /\ wpc \in WorkerPlaces
  /\ pc \in [Callers -> CallerPlaces]
  /\ call \in [Callers -> AllCalls \cup {"none"}]
  /\ promise \in {"none", "paused", "closed"}

Init ==
  /\ m_ExecMode = "NoThreadYet" /\ m_running = FALSE
  /\ m_ExecModeMutex = "nobody" /\ m_RunningLock = "nobody"
  /\ m_mtx_start = "nobody"
  /\ m_sem_Resume = 0 /\ m_sem_ChangingExecMode = 0 /\ m_sem_event = FALSE
  /\ pluginsOpen = FALSE
  /\ m_resetVirtualMachine = TRUE /\ m_hasActiveMachine = FALSE
  /\ cancelled = FALSE
  /\ wpc = "off"
  /\ pc = [c \in Callers |-> "idle"] /\ call = [c \in Callers |-> "none"]
  /\ promise = "none"

-----------------------------------------------------------------------------
(* The callers *)

\* The worker has been resumed and has not yet read m_ExecMode again after
\* taking m_RunningLock back.
Waking == /\ m_ExecMode \notin {"Paused", "Closed"}
          /\ wpc \in HoldsP \cup HoldsC \cup {"relP", "relC", "wokeP"}

Go(c, from, to) ==
  /\ pc[c] = from
  /\ pc' = [pc EXCEPT ![c] = to]
  /\ UNCHANGED <<call, promise>>

\* The calls that may set a suspended worker in motion, be it to close.
Moving == AllCalls \ {"Pause", "Upload"}

\* The call of c returns; if it was to stop the worker, and no other call
\* may move it, the caller may take the worker to be stopped.
Return(c, from, told) ==
  /\ pc[c] = from
  /\ IF call[c] = "Reset" /\ from \in SuspendPlaces
       THEN /\ pc' = [pc EXCEPT ![c] = "x_flags"]
            /\ UNCHANGED call
       ELSE /\ pc' = [pc EXCEPT ![c] = "idle"]
            /\ call' = [call EXCEPT ![c] = "none"]
  /\ promise' = IF told = "none" \/ \E d \in Callers \ {c} : call[d] \in Moving
                THEN promise ELSE told

\* Bug: Reset does not suspend the worker first.
FirstPlaceHot(op) ==
  CASE op \in {"Suspend", "SuspendAsync"} -> "s_check"
    [] op = "Reset"  -> "x_flags"
    [] op = "Pause"  -> "p_check"
    [] op = "Resume" -> "r_check"
    [] op = "Upload" -> "u_check"
    [] op = "Cancel" -> "c_lock"

FirstPlace(op) ==
  CASE op \in {"Suspend", "SuspendAsync", "Reset"} -> "s_check"
    [] op = "Pause"  -> "p_check"
    [] op = "Resume" -> "r_check"
    [] op = "Upload" -> "u_check"
    [] op = "Cancel" -> "c_lock"

Begin(c) ==
  /\ pc[c] = "idle"
  /\ m_sem_Resume < MaxTokens /\ m_sem_ChangingExecMode < MaxTokens
  /\ Patient => ~Waking
  /\ \E op \in Calls :
       /\ pc' = [pc EXCEPT ![c] = FirstPlace(op)]
       /\ call' = [call EXCEPT ![c] = op]
       /\ promise' = IF op \in Moving THEN "none" ELSE promise
       \* SysCoreThread::Cancel clears the flag before it calls its parent.
       /\ m_hasActiveMachine' = (m_hasActiveMachine /\ op # "Cancel")
  /\ UNCHANGED <<modeVars, lockVars, semVars, pluginsOpen,
                 m_resetVirtualMachine, workerVars>>

Lock(c, from, to) ==
  /\ m_ExecModeMutex = "nobody"
  /\ m_ExecModeMutex' = c
  /\ Go(c, from, to)
  /\ UNCHANGED <<modeVars, m_RunningLock, m_mtx_start, semVars, vmVars,
                 workerVars>>

\* A return from inside the scope of the ScopedLock.
UnlockReturn(c, from, told) ==
  /\ m_ExecModeMutex' = "nobody"
  /\ Return(c, from, told)
  /\ UNCHANGED <<modeVars, m_RunningLock, m_mtx_start, semVars, vmVars,
                 workerVars>>

QuietReturn(c, from, told) ==
  /\ Return(c, from, told)
  /\ UNCHANGED <<modeVars, lockVars, semVars, vmVars, workerVars>>

QuietGo(c, from, to) ==
  /\ Go(c, from, to)
  /\ UNCHANGED <<modeVars, lockVars, semVars, vmVars, workerVars>>

WriteMode(c, from, mode, to) ==
  /\ m_ExecMode' = mode
  /\ Go(c, from, to)
  /\ UNCHANGED <<m_running, lockVars, semVars, vmVars, workerVars>>

-----------------------------------------------------------------------------
(* Suspend, and Reset *)

\* The first test of m_ExecMode is made before the lock is taken.
SuspendCheck(c) ==
  IF ~m_running THEN QuietReturn(c, "s_check", "none")
                ELSE QuietGo(c, "s_check", "s_mode")

SuspendMode(c) ==
  IF m_ExecMode = "Closed" THEN QuietReturn(c, "s_mode", "closed")
                           ELSE QuietGo(c, "s_mode", "s_lock")

SuspendLock(c) == Lock(c, "s_lock", "s_read")

SuspendSwitch(c) ==
  CASE m_ExecMode = "Closed" -> UnlockReturn(c, "s_read", "closed")
    [] m_ExecMode \in {"Pausing", "Paused"} ->
         IF call[c] = "SuspendAsync"
           THEN UnlockReturn(c, "s_read", "none")     \* throw CancelEvent
           ELSE QuietGo(c, "s_read", "s_change")
    [] m_ExecMode = "Opened" -> QuietGo(c, "s_read", "s_close")
    [] OTHER -> QuietGo(c, "s_read", "s_post")

SuspendOpened(c) == WriteMode(c, "s_close", "Closing", "s_post")

SuspendPaused(c) == WriteMode(c, "s_change", "Closing", "s_token")

SuspendToken(c) ==
  /\ m_sem_Resume' = m_sem_Resume + 1
  /\ Go(c, "s_token", "s_wait")
  /\ UNCHANGED <<modeVars, lockVars, m_sem_ChangingExecMode, m_sem_event,
                 vmVars, workerVars>>

SuspendChanged(c) ==
  /\ m_sem_ChangingExecMode > 0
  /\ m_sem_ChangingExecMode' = m_sem_ChangingExecMode - 1
  /\ Go(c, "s_wait", "s_post")
  /\ UNCHANGED <<modeVars, lockVars, m_sem_Resume, m_sem_event, vmVars,
                 workerVars>>

SuspendPost(c) ==
  /\ m_sem_event' = TRUE
  /\ m_ExecModeMutex' = "nobody"
  /\ IF call[c] = "SuspendAsync" THEN Return(c, "s_post", "none")
                                 ELSE Go(c, "s_post", "s_run")
  /\ UNCHANGED <<modeVars, m_RunningLock, m_mtx_start, m_sem_Resume,
                 m_sem_ChangingExecMode, vmVars, workerVars>>

SuspendRun(c) ==
  /\ m_RunningLock = "nobody"
  /\ QuietReturn(c, "s_run", "closed")

ResetFlags(c) ==
  /\ m_resetVirtualMachine' = TRUE
  /\ m_hasActiveMachine' = FALSE
  /\ Return(c, "x_flags", "none")
  /\ UNCHANGED <<modeVars, lockVars, semVars, pluginsOpen, workerVars>>

-----------------------------------------------------------------------------
(* Pause *)

PauseCheck(c) ==
  IF ~m_running THEN QuietReturn(c, "p_check", "none")
                ELSE QuietGo(c, "p_check", "p_mode")

PauseMode(c) ==
  IF m_ExecMode \in {"Closed", "Paused"} THEN QuietReturn(c, "p_mode", "paused")
                                         ELSE QuietGo(c, "p_mode", "p_lock")

PauseLock(c) == Lock(c, "p_lock", "p_read")

PauseRead(c) ==
  CASE m_ExecMode \in {"Closed", "Paused"} -> UnlockReturn(c, "p_read", "paused")
    [] m_ExecMode = "Opened" -> QuietGo(c, "p_read", "p_write")
    [] OTHER -> QuietGo(c, "p_read", "p_post")

PauseWrite(c) == WriteMode(c, "p_write", "Pausing", "p_post")

PausePost(c) ==
  /\ m_sem_event' = TRUE
  /\ m_ExecModeMutex' = "nobody"
  /\ Go(c, "p_post", "p_run")
  /\ UNCHANGED <<modeVars, m_RunningLock, m_mtx_start, m_sem_Resume,
                 m_sem_ChangingExecMode, vmVars, workerVars>>

\* Bug: the caller does not wait for the worker.
PauseRunNoWait(c) == QuietReturn(c, "p_run", "paused")

PauseRun(c) ==
  /\ m_RunningLock = "nobody"
  /\ QuietReturn(c, "p_run", "paused")

-----------------------------------------------------------------------------
(* Resume *)

ResumeCheck(c) ==
  IF m_ExecMode = "Opened" THEN QuietReturn(c, "r_check", "none")
                           ELSE QuietGo(c, "r_check", "r_lock")

ResumeLock(c) == Lock(c, "r_lock", "r_read")

ResumeSwitch(c) ==
  CASE m_ExecMode = "Opened" -> UnlockReturn(c, "r_read", "none")
    [] m_ExecMode = "NoThreadYet" -> QuietGo(c, "r_read", "r_start")
    [] m_ExecMode \in {"Closing", "Pausing"} -> QuietGo(c, "r_read", "r_run")
    [] OTHER -> QuietGo(c, "r_read", "r_ready")

\* pxThread::Start up to pthread_create, with both classes' OnStart, which
\* StartAsserts shows to find m_ExecMode as its assertion wants it.
ResumeStart(c) ==
  /\ m_mtx_start = "nobody"
  /\ IF m_running
       THEN QuietGo(c, "r_start", "r_event")
       ELSE /\ m_mtx_start' = c
            /\ m_RunningLock' = "nobody"
            /\ m_sem_Resume' = 0 /\ m_sem_ChangingExecMode' = 0
            /\ m_sem_event' = FALSE
            /\ wpc' = "boot" /\ cancelled' = FALSE
            /\ Go(c, "r_start", "r_started")
            /\ UNCHANGED <<modeVars, m_ExecModeMutex, vmVars>>

\* The worker has posted m_sem_startup.
ResumeStarted(c) ==
  /\ wpc # "boot"
  /\ m_mtx_start' = "nobody"
  /\ Go(c, "r_started", "r_event")
  /\ UNCHANGED <<modeVars, m_ExecModeMutex, m_RunningLock, semVars, vmVars,
                 workerVars>>

ResumeEvent(c) ==
  /\ m_sem_event' = TRUE
  /\ Go(c, "r_event", "r_made")
  /\ UNCHANGED <<modeVars, lockVars, m_sem_Resume, m_sem_ChangingExecMode,
                 vmVars, workerVars>>

ResumeMade(c) ==
  IF ~m_running \/ m_ExecMode \in {"NoThreadYet", "Opened"}
    THEN UnlockReturn(c, "r_made", "none")
    ELSE QuietGo(c, "r_made", "r_run")

ResumeRun(c) ==
  /\ m_RunningLock = "nobody"
  /\ QuietGo(c, "r_run", "r_again")

ResumeAgain(c) ==
  IF ~m_running \/ m_ExecMode \notin {"Closed", "Paused"}
    THEN UnlockReturn(c, "r_again", "none")
    ELSE QuietGo(c, "r_again", "r_ready")

\* OnResumeReady
ResumeReady(c) ==
  /\ m_hasActiveMachine' = (m_hasActiveMachine /\ ~m_resetVirtualMachine)
  /\ Go(c, "r_ready", "r_open")
  /\ UNCHANGED <<modeVars, lockVars, semVars, pluginsOpen,
                 m_resetVirtualMachine, workerVars>>

ResumeOpen(c) == WriteMode(c, "r_open", "Opened", "r_post")

\* Bug: the worker is not woken.
ResumePostNone(c) ==
  /\ m_ExecModeMutex' = "nobody"
  /\ Return(c, "r_post", "none")
  /\ UNCHANGED <<modeVars, m_RunningLock, m_mtx_start, semVars, vmVars,
                 workerVars>>

ResumePost(c) ==
  /\ m_sem_Resume' = m_sem_Resume + 1
  /\ m_ExecModeMutex' = "nobody"
  /\ Return(c, "r_post", "none")
  /\ UNCHANGED <<modeVars, m_RunningLock, m_mtx_start, m_sem_ChangingExecMode,
                 m_sem_event, vmVars, workerVars>>

-----------------------------------------------------------------------------
(* UploadStateCopy, and Cancel *)

\* Bug: m_ExecMode <= ExecMode_Opened.
IsPausedOpened == ~m_running \/ m_ExecMode \notin {"Closing", "Pausing"}

IsPaused == ~m_running \/ m_ExecMode \in {"NoThreadYet", "Closed", "Paused"}

UploadCheck(c) ==
  IF IsPaused THEN QuietGo(c, "u_check", "u_copy")
              ELSE QuietReturn(c, "u_check", "none")

UploadCopy(c) ==
  /\ m_resetVirtualMachine' = FALSE
  /\ Return(c, "u_copy", "none")
  /\ UNCHANGED <<modeVars, lockVars, semVars, pluginsOpen, m_hasActiveMachine,
                 workerVars>>

CancelLock(c) ==
  /\ m_mtx_start = "nobody"
  /\ IF m_running
       THEN /\ m_mtx_start' = c
            /\ cancelled' = TRUE
            /\ Go(c, "c_lock", "c_wait")
            /\ UNCHANGED <<modeVars, m_ExecModeMutex, m_RunningLock, semVars,
                           vmVars, wpc>>
       ELSE QuietReturn(c, "c_lock", "none")

\* WaitOnSelf(m_mtx_InThread), which the worker holds until its cleanup.
CancelWait(c) ==
  /\ wpc \in {"die5", "off"}
  /\ m_mtx_start' = "nobody"
  /\ Return(c, "c_wait", "none")
  /\ UNCHANGED <<modeVars, m_ExecModeMutex, m_RunningLock, semVars, vmVars,
                 workerVars>>

SuspendStep(c) ==
  \/ SuspendCheck(c) \/ SuspendMode(c) \/ SuspendLock(c) \/ SuspendSwitch(c)
  \/ SuspendOpened(c) \/ SuspendPaused(c) \/ SuspendToken(c) \/ SuspendChanged(c)
  \/ SuspendPost(c) \/ SuspendRun(c) \/ ResetFlags(c)
PauseStep(c) ==
  \/ PauseCheck(c) \/ PauseMode(c) \/ PauseLock(c) \/ PauseRead(c) \/ PauseWrite(c)
  \/ PausePost(c) \/ PauseRun(c)
ResumeStep(c) ==
  \/ ResumeCheck(c) \/ ResumeLock(c) \/ ResumeSwitch(c) \/ ResumeStart(c)
  \/ ResumeStarted(c) \/ ResumeEvent(c) \/ ResumeMade(c)
  \/ ResumeRun(c) \/ ResumeAgain(c) \/ ResumeReady(c)
  \/ ResumeOpen(c) \/ ResumePost(c)
OtherStep(c) ==
  UploadCheck(c) \/ UploadCopy(c) \/ CancelLock(c) \/ CancelWait(c)

\* What a caller does once it is in a call.
CallerStep(c) == SuspendStep(c) \/ PauseStep(c) \/ ResumeStep(c) \/ OtherStep(c)

-----------------------------------------------------------------------------
(* The worker *)

Step(from, to) == wpc = from /\ wpc' = to /\ UNCHANGED cancelled

QuietStep(from, to) ==
  /\ Step(from, to)
  /\ UNCHANGED <<modeVars, lockVars, semVars, vmVars, callerVars>>

\* m_ExecMode = mode, on the worker.
SetMode(from, mode, to) ==
  /\ m_ExecMode' = mode
  /\ Step(from, to)
  /\ UNCHANGED <<m_running, lockVars, semVars, vmVars, callerVars>>

Acquire(from, to) ==
  /\ m_RunningLock = "nobody"
  /\ m_RunningLock' = "worker"
  /\ Step(from, to)
  /\ UNCHANGED <<modeVars, m_ExecModeMutex, m_mtx_start, semVars, vmVars,
                 callerVars>>

Release(from, to) ==
  /\ m_RunningLock' = "nobody"
  /\ Step(from, to)
  /\ UNCHANGED <<modeVars, m_ExecModeMutex, m_mtx_start, semVars, vmVars,
                 callerVars>>

\* One test of while( m_ExecMode == mode ), and one m_sem_Resume wait in it.
HoldTest(hold, mode, wait, lock) ==
  QuietStep(hold, IF m_ExecMode = mode THEN wait ELSE lock)
\* Bug: the mode is not tested again after the wait.
HoldWaitOnce(wait, hold) ==
  /\ m_sem_Resume > 0
  /\ m_sem_Resume' = m_sem_Resume - 1
  /\ Step(wait, IF hold = "holdP" THEN "lockP" ELSE "lockC")
  /\ UNCHANGED <<modeVars, lockVars, m_sem_ChangingExecMode, m_sem_event,
                 vmVars, callerVars>>

HoldWait(wait, hold) ==
  /\ m_sem_Resume > 0
  /\ m_sem_Resume' = m_sem_Resume - 1
  /\ Step(wait, hold)
  /\ UNCHANGED <<modeVars, lockVars, m_sem_ChangingExecMode, m_sem_event,
                 vmVars, callerVars>>

\* OnStartInThread of both classes and the post of m_sem_startup: the thread
\* that called Start holds m_ExecModeMutex, so no other looks in between.
WorkerStart ==
  /\ Step("boot", "event")
  /\ m_RunningLock = "nobody" /\ m_RunningLock' = "worker"
  /\ m_running' = TRUE
  /\ m_ExecMode' = "Closing"
  /\ UNCHANGED <<m_ExecModeMutex, m_mtx_start, semVars, vmVars, callerVars>>

WorkerEvent ==
  /\ m_sem_event
  /\ m_sem_event' = FALSE
  /\ Step("event", "check")
  /\ UNCHANGED <<modeVars, lockVars, m_sem_Resume, m_sem_ChangingExecMode,
                 vmVars, callerVars>>

\* switch( m_ExecMode ) in StateCheckInThread.
StateCheck ==
  QuietStep("check",
            CASE m_ExecMode = "Pausing" -> "pausing"
              [] m_ExecMode = "Paused"  -> "holdP"
              [] m_ExecMode = "Closing" -> "close"
              [] m_ExecMode = "Closed"  -> "holdC"
              [] OTHER -> "enter")

SetPaused == SetMode("pausing", "Paused", "relP")
ReleasePaused == Release("relP", "holdP")
HoldPaused == HoldTest("holdP", "Paused", "waitP", "lockP")
WaitPaused == HoldWait("waitP", "holdP")
\* Bug: the worker goes on without its lock.
LockPausedNone == QuietStep("lockP", "wokeP")

LockPaused == Acquire("lockP", "wokeP")

ResumedFromPause ==
  /\ m_ExecMode # "Closing"
  /\ QuietStep("wokeP", "open")

\* Bug: Suspend is not told that the pause has become a close.
ChangingExecModeNone ==
  /\ m_ExecMode = "Closing"
  /\ QuietStep("wokeP", "close")

ChangingExecMode ==
  /\ m_ExecMode = "Closing"
  /\ m_sem_ChangingExecMode' = m_sem_ChangingExecMode + 1
  /\ Step("wokeP", "close")
  /\ UNCHANGED <<modeVars, lockVars, m_sem_Resume, m_sem_event, vmVars,
                 callerVars>>

OnSuspendInThread ==
  /\ pluginsOpen' = FALSE
  /\ Step("close", "closed")
  /\ UNCHANGED <<modeVars, lockVars, semVars, m_resetVirtualMachine,
                 m_hasActiveMachine, callerVars>>

SetClosed == SetMode("closed", "Closed", "relC")
ReleaseClosed == Release("relC", "holdC")
HoldClosed == HoldTest("holdC", "Closed", "waitC", "lockC")
WaitClosed == HoldWait("waitC", "holdC")
LockClosed == Acquire("lockC", "open")

OnResumeInThread ==
  /\ pluginsOpen' = TRUE
  /\ Step("open", "reset")
  /\ UNCHANGED <<modeVars, lockVars, semVars, m_resetVirtualMachine,
                 m_hasActiveMachine, callerVars>>

ResetAsNeeded ==
  /\ m_resetVirtualMachine' = FALSE
  /\ Step("reset", "enter")
  /\ UNCHANGED <<modeVars, lockVars, semVars, pluginsOpen, m_hasActiveMachine,
                 callerVars>>

DoCpuExecute ==
  /\ m_hasActiveMachine' = TRUE
  /\ Step("enter", "exec")
  /\ UNCHANGED <<modeVars, lockVars, semVars, pluginsOpen,
                 m_resetVirtualMachine, callerVars>>

HasPendingStateChangeRequest ==
  ~m_hasActiveMachine \/ m_ExecMode \in {"Closing", "Pausing"}

\* CheckExecutionState at a vsync leaves Cpu->Execute.
ExitCpuExecute ==
  /\ HasPendingStateChangeRequest
  /\ QuietStep("exec", "check")

\* The task ends: an exception of the CPU, the MTGS or a plugin that does not
\* open, or a cancellation point.
TaskEnds ==
  /\ \/ MayFail /\ wpc \in {"check", "open", "exec"}
     \/ cancelled /\ wpc \in {"event", "waitP", "waitC", "exec"}
     \/ cancelled /\ wpc = "check" /\ m_ExecMode = "Opened"
  /\ wpc' = "die"
  /\ UNCHANGED <<modeVars, lockVars, semVars, vmVars, cancelled, callerVars>>

\* SysCoreThread::OnCleanupInThread up to its parent's.
CleanupCore == SetMode("die", "Closing", "dieM")

CleanupMachine ==
  /\ m_hasActiveMachine' = FALSE
  /\ Step("dieM", "dieR")
  /\ UNCHANGED <<modeVars, lockVars, semVars, pluginsOpen, m_resetVirtualMachine,
                 callerVars>>

CleanupReset ==
  /\ m_resetVirtualMachine' = TRUE
  /\ Step("dieR", "dieP")
  /\ UNCHANGED <<modeVars, lockVars, semVars, pluginsOpen, m_hasActiveMachine,
                 callerVars>>

CleanupPlugins ==
  /\ pluginsOpen' = FALSE
  /\ Step("dieP", "die2")
  /\ UNCHANGED <<modeVars, lockVars, semVars, m_resetVirtualMachine,
                 m_hasActiveMachine, callerVars>>

CleanupBase    == SetMode("die2", "NoThreadYet", "die3")
\* The lock is released whether or not the worker has it.
CleanupRelease == Release("die3", "die4")
CleanupMode    == SetMode("die4", "NoThreadYet", "die5")

ThreadEnds ==
  /\ m_running' = FALSE
  /\ Step("die5", "off")
  /\ UNCHANGED <<m_ExecMode, lockVars, semVars, vmVars, callerVars>>

Work ==
  \/ WorkerStart \/ WorkerEvent \/ StateCheck
  \/ SetPaused \/ ReleasePaused \/ HoldPaused \/ WaitPaused \/ LockPaused
  \/ ResumedFromPause \/ ChangingExecMode
  \/ OnSuspendInThread \/ SetClosed \/ ReleaseClosed \/ HoldClosed
  \/ WaitClosed \/ LockClosed
  \/ OnResumeInThread \/ ResetAsNeeded \/ DoCpuExecute \/ ExitCpuExecute
  \/ CleanupCore \/ CleanupMachine \/ CleanupReset \/ CleanupPlugins
  \/ CleanupBase \/ CleanupRelease \/ CleanupMode \/ ThreadEnds

Next == (\E c \in Callers : Begin(c) \/ CallerStep(c)) \/ Work \/ TaskEnds

Spec == Init /\ [][Next]_vars

\* A thread that can run does; the CPU reaches a vsync again and again.  No
\* caller has to begin a call, and no task has to fail; a cancelled one ends.
Fairness ==
  /\ WF_vars(Work)
  /\ WF_vars(cancelled /\ TaskEnds)
  /\ \A c \in Callers : WF_vars(CallerStep(c))

FairSpec == Spec /\ Fairness

-----------------------------------------------------------------------------
(* Properties *)

\* The places where the worker is out of the emulation and will touch neither
\* the machine nor the plugins before it has taken m_RunningLock back.
Suspended == {"relP", "holdP", "waitP", "relC", "holdC", "waitC",
              "die3", "die4", "die5", "off"}

Executing == {"enter", "exec"}

\* SysThreads.h: Closed is "safely paused, with plugins in a closed state",
\* Paused is "safely paused, with plugins in an open state".
SafelyPaused ==
  /\ m_ExecMode = "Closed"
       => ~pluginsOpen /\ wpc \in {"relC", "holdC", "waitC", "die"}
  /\ m_ExecMode = "Paused"
       => pluginsOpen /\ wpc \in {"relP", "holdP", "waitP", "die"}

\* The machine runs with its plugins open, and while m_RunningLock is taken.
RunsOpen ==
  wpc \in Executing => pluginsOpen /\ m_RunningLock = "worker" /\ m_running

\* When a Pause or a blocking Suspend has returned, and nobody resumes, the
\* worker is suspended; after a Suspend its plugins are closed too.
ReturnMeansSuspended ==
  /\ promise # "none" => wpc \in Suspended
  /\ promise = "closed" => ~pluginsOpen

\* Once a Reset has returned the machine is not run before it is reset.
ResetBeforeRun == wpc \in Executing => ~m_resetVirtualMachine

\* A state is uploaded only while the worker is suspended.
UploadExclusive ==
  \A c \in Callers : pc[c] = "u_copy" => wpc \in Suspended

\* pxAssumeDev at the end of Suspend's critical section.
SuspendAssumes == \A c \in Callers : pc[c] = "s_post" => m_ExecMode = "Closing"

\* The assertion in OnStart.
StartAsserts ==
  \A c \in Callers :
    pc[c] = "r_start" /\ m_mtx_start = "nobody" /\ ~m_running
      => m_ExecMode = "NoThreadYet"

\* With every call over, a thread that has ended can be started again: Resume
\* starts one only when it finds NoThreadYet.
NoThreadMode ==
  wpc = "off" /\ (\A c \in Callers : pc[c] = "idle") => m_ExecMode = "NoThreadYet"

\* A call returns as long as the worker lives, however it waits for the worker's
\* locks and semaphores; a worker that fails may leave a Suspend without an answer.
CallsReturn ==
  \A c \in Callers : (pc[c] # "idle") ~> (pc[c] = "idle" \/ wpc \in Ending \cup {"off"})

\* A Suspend that changes a pause into a close is answered.
ChangeAnswered == \A c \in Callers : (pc[c] = "s_wait") ~> (pc[c] # "s_wait")

\* A Resume that has opened the thread makes it run, unless it is stopped or cancelled.
ResumeRuns ==
  (m_ExecMode = "Opened") ~> (m_ExecMode # "Opened" \/ wpc = "exec" \/ cancelled)
=============================================================================
