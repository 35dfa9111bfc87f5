------------------------------ MODULE RepoLock ------------------------------
(***************************************************************************)
(* The repository transaction of scripts/state_store.py.                   *)
(*                                                                         *)
(* Every command of CAO that reads or writes .orchestrator runs inside     *)
(* repo_transaction(repo).  A transaction is guarded twice: a re-entrant   *)
(* mutex per repository serialises the threads of one process, and an      *)
(* advisory operating-system lock on state.lock serialises the processes.  *)
(* The depth of nesting is kept per thread, and only the outermost entry   *)
(* of a thread takes and releases the operating-system lock.  A process    *)
(* may die at any point: its memory goes, and the system drops its locks.  *)
(***************************************************************************)
EXTENDS Naturals

CONSTANTS
    Threads,    \* every thread that may open a transaction
    Procs,      \* the processes they live in
    ProcOf,     \* the process of each thread
    NoThread,   \* stands for "free"
    MaxDepth    \* bound on the nesting of transactions in one thread

ASSUME LockAssumption ==
    /\ ProcOf \in [Threads -> Procs]
    /\ NoThread \notin Threads
    /\ MaxDepth \in Nat \ {0}

VARIABLES
    mutex,      \* owner of the re-entrant mutex of each process
    count,      \* how often that owner has acquired it
    oslock,     \* the thread whose descriptor holds the lock on state.lock
    depth,      \* the thread-local nesting depth
    pc          \* where each thread is in repo_transaction

vars == <<mutex, count, oslock, depth, pc>>

(* "out"     not in a transaction                                          *)
(* "mutex"   waiting for the process-wide mutex                            *)
(* "os"      owns the mutex, polls the operating-system lock               *)
(* "in"      inside the transaction body                                   *)
(* "unlock"  left the outermost body, still holds the descriptor           *)
(* "release" descriptor closed, about to release the mutex                 *)
Points == {"out", "mutex", "os", "in", "unlock", "release"}

TypeOK ==
    /\ mutex \in [Procs -> Threads \cup {NoThread}]
    /\ count \in [Procs -> Nat]
    /\ oslock \in Threads \cup {NoThread}
    /\ depth \in [Threads -> Nat]
    /\ pc \in [Threads -> Points]

Init ==
    /\ mutex = [p \in Procs |-> NoThread]
    /\ count = [p \in Procs |-> 0]
    /\ oslock = NoThread
    /\ depth = [t \in Threads |-> 0]
    /\ pc = [t \in Threads |-> "out"]

Goto(t, from, to) ==
    /\ pc[t] = from
    /\ pc' = [pc EXCEPT ![t] = to]

-----------------------------------------------------------------------------
(* The steps of one thread.                                                *)

\* A thread outside any transaction calls repo_transaction.
Call(t) ==
    /\ Goto(t, "out", "mutex")
    /\ UNCHANGED <<mutex, count, oslock, depth>>

\* mutex.acquire succeeds: the mutex of this process was free.
AcquireMutex(t) ==
    /\ Goto(t, "mutex", "os")
    /\ mutex[ProcOf[t]] = NoThread
    /\ mutex' = [mutex EXCEPT ![ProcOf[t]] = t]
    /\ count' = [count EXCEPT ![ProcOf[t]] = 1]
    /\ UNCHANGED <<oslock, depth>>

\* Mutant: the time-out leaves through the finally and releases a mutex
\* that this thread never acquired.
MutexTimeoutReleases(t) ==
    /\ Goto(t, "mutex", "out")
    /\ mutex[ProcOf[t]] # NoThread
    /\ mutex' = [mutex EXCEPT ![ProcOf[t]] = NoThread]
    /\ count' = [count EXCEPT ![ProcOf[t]] = @ - 1]
    /\ UNCHANGED <<oslock, depth>>

\* Mutant: a plain blocking acquire, without the deadline.
MutexTimeoutNever(t) == FALSE

\* mutex.acquire times out while another thread of the process owns it.
MutexTimeout(t) ==
    /\ Goto(t, "mutex", "out")
    /\ mutex[ProcOf[t]] # NoThread
    /\ UNCHANGED <<mutex, count, oslock, depth>>

\* Mutant: the lock is believed taken whatever the system answered.
TakeLockBlindly(t) ==
    /\ Goto(t, "os", "in")
    /\ oslock' = t
    /\ depth' = [depth EXCEPT ![t] = @ + 1]
    /\ UNCHANGED <<mutex, count>>

\* The polled lock is free: take it and enter the body at depth one.
TakeLock(t) ==
    /\ Goto(t, "os", "in")
    /\ oslock = NoThread
    /\ oslock' = t
    /\ depth' = [depth EXCEPT ![t] = @ + 1]
    /\ UNCHANGED <<mutex, count>>

\* Mutant: a failed poll returns past the finally that frees the mutex.
LockFailsKeepsMutex(t) ==
    /\ Goto(t, "os", "out")
    /\ UNCHANGED <<mutex, count, oslock, depth>>

\* The lock file cannot be opened, or the deadline passes while another
\* process holds it: nothing was acquired, so only the mutex is given back.
LockFails(t) ==
    /\ Goto(t, "os", "release")
    /\ UNCHANGED <<mutex, count, oslock, depth>>

\* Mutant: a nested entry finds a descriptor and skips the mutex.
ReenterWithoutMutex(t) ==
    /\ pc[t] = "in"
    /\ depth[t] \in 1 .. (MaxDepth - 1)
    /\ depth' = [depth EXCEPT ![t] = @ + 1]
    /\ UNCHANGED <<mutex, count, oslock, pc>>

\* A command inside a transaction calls a @locked_repo helper: the owner
\* re-enters the mutex and, its depth being positive, reuses its lock.
Reenter(t) ==
    /\ pc[t] = "in"
    /\ mutex[ProcOf[t]] = t
    /\ depth[t] \in 1 .. (MaxDepth - 1)
    /\ count' = [count EXCEPT ![ProcOf[t]] = @ + 1]
    /\ depth' = [depth EXCEPT ![t] = @ + 1]
    /\ UNCHANGED <<mutex, oslock, pc>>

\* A nested body ends: it has no descriptor and releases one mutex level.
LeaveNested(t) ==
    /\ pc[t] = "in"
    /\ depth[t] > 1
    /\ depth' = [depth EXCEPT ![t] = @ - 1]
    /\ count' = [count EXCEPT ![ProcOf[t]] = @ - 1]
    /\ UNCHANGED <<mutex, oslock, pc>>

\* The outermost body ends, normally or with an exception.
Leave(t) ==
    /\ Goto(t, "in", "unlock")
    /\ depth[t] = 1
    /\ depth' = [depth EXCEPT ![t] = @ - 1]
    /\ UNCHANGED <<mutex, count, oslock>>

\* Mutant: the descriptor is neither unlocked nor closed.
UnlockForgotten(t) ==
    /\ Goto(t, "unlock", "release")
    /\ UNCHANGED <<mutex, count, oslock, depth>>

\* The acquired descriptor is unlocked and closed.
Unlock(t) ==
    /\ Goto(t, "unlock", "release")
    /\ oslock' = NoThread
    /\ UNCHANGED <<mutex, count, depth>>

\* The last statement of the outer finally.
ReleaseMutex(t) ==
    /\ Goto(t, "release", "out")
    /\ count' = [count EXCEPT ![ProcOf[t]] = @ - 1]
    /\ mutex' = [mutex EXCEPT ![ProcOf[t]] = NoThread]
    /\ UNCHANGED <<oslock, depth>>

\* A process dies and is started again.  "The persistent file is not
\* ownership evidence; the OS releases dead owners."
Crash(p) ==
    /\ \E t \in Threads : ProcOf[t] = p /\ pc[t] # "out"
    /\ pc' = [t \in Threads |-> IF ProcOf[t] = p THEN "out" ELSE pc[t]]
    /\ depth' = [t \in Threads |-> IF ProcOf[t] = p THEN 0 ELSE depth[t]]
    /\ mutex' = [mutex EXCEPT ![p] = NoThread]
    /\ count' = [count EXCEPT ![p] = 0]
    /\ oslock' = IF \E t \in Threads : ProcOf[t] = p /\ oslock = t
                   THEN NoThread ELSE oslock

Step(t) ==
    \/ Call(t) \/ AcquireMutex(t) \/ MutexTimeout(t)
    \/ TakeLock(t) \/ LockFails(t)
    \/ Reenter(t) \/ LeaveNested(t) \/ Leave(t)
    \/ Unlock(t) \/ ReleaseMutex(t)

Next == (\E t \in Threads : Step(t)) \/ (\E p \in Procs : Crash(p))

Spec == Init /\ [][Next]_vars

(* Every command that is running reaches its end: a body and the bodies    *)
(* nested in it are finite however often they nest (the strong fairness of *)
(* their exits), the finally blocks run, and a poll either takes the lock  *)
(* or times out.  No fairness is asked of Call or Reenter: nobody has to   *)
(* start a command.                                                        *)
Progress(t) ==
    \/ AcquireMutex(t) \/ MutexTimeout(t) \/ TakeLock(t) \/ LockFails(t)
    \/ LeaveNested(t) \/ Leave(t) \/ Unlock(t) \/ ReleaseMutex(t)

FairSpec ==
    /\ Spec
    /\ \A t \in Threads :
         /\ WF_vars(Progress(t))
         /\ SF_vars(Leave(t))
         /\ \A d \in 2 .. MaxDepth : SF_vars(depth[t] = d /\ LeaveNested(t))

-----------------------------------------------------------------------------
(* Properties.                                                             *)

(* Two threads, of one process or of two, are never inside a transaction   *)
(* together, whatever was nested, timed out or crashed before: the lock    *)
(* that every store of .orchestrator relies on (repo_transaction).         *)
MutualExclusion ==
    \A s, t \in Threads :
        pc[s] \in {"in", "unlock"} /\ pc[t] \in {"in", "unlock"} => s = t

(* A transaction that ended leaves nothing behind: outside it a thread     *)
(* owns neither lock and has depth zero, so that neither a time-out, nor   *)
(* an exception in a nested body, nor a crash can leak the lock and starve *)
(* every later command.                                                    *)
NothingLeaks ==
    \A t \in Threads : pc[t] = "out" =>
        /\ depth[t] = 0
        /\ oslock # t
        /\ mutex[ProcOf[t]] # t

(* The bookkeeping of the two levels agrees: the re-entrant mutex is held  *)
(* exactly as often as the owner's transactions are nested, which is why   *)
(* the outermost exit, and no earlier one, gives the lock away.            *)
LevelsAgree ==
    \A t \in Threads : pc[t] = "in" =>
        /\ oslock = t
        /\ mutex[ProcOf[t]] = t
        /\ count[ProcOf[t]] = depth[t]

(* A command that waits for the lock comes to an answer: it enters its     *)
(* transaction or it is told STATE_LOCK_TIMEOUT.                           *)
WaitersAnswered ==
    \A t \in Threads : pc[t] \in {"mutex", "os"} ~> pc[t] \in {"in", "out"}

(* No transaction holds the repository for ever: the lock is free again    *)
(* and again.                                                              *)
LockComesFree == []<>(oslock = NoThread)

(* What the locks say of themselves: mutex count, nesting depth and the   *)
(* operating-system lock stay in step, and none of them goes below zero.   *)
WellFormed == TypeOK /\ LevelsAgree
=============================================================================
