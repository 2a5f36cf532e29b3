----------------------------- MODULE ProfileLocker -----------------------------
(* ProfileLocker: the lock files that keep two qTox processes from using one   *)
(* profile.  A lock file names the process that wrote it; Qt takes the file of *)
(* a process that has died for no lock.  Each process holds at most one lock.  *)
CONSTANTS
    Procs,
    Names,      \* names of profiles
    NoName,     \* no lock
    Nobody      \* no lock file

ASSUME LockerAssumption == NoName \notin Names /\ Nobody \notin Procs

VARIABLES
    lockFile,   \* the process whose lock file each name has
    curLock     \* ProfileLocker::lockfile and curLockName of each process

lockVars == <<lockFile, curLock>>
-----------------------------------------------------------------------------
LockInit == lockFile = [n \in Names |-> Nobody] /\ curLock = [p \in Procs |-> NoName]

HasLock(p) == curLock[p] # NoName

\* The file that p thinks is its own is removed, whoever wrote it.
Released(p) == [n \in Names |-> IF n = curLock[p] THEN Nobody ELSE lockFile[n]]

\* Mutant: a lock file that another process has written is taken over.
LockOver(p, n) ==
    /\ lockFile' = [Released(p) EXCEPT ![n] = p]
    /\ curLock' = [curLock EXCEPT ![p] = n]

\* ProfileLocker::lock returns true: the new lock is taken before the old one is released.
Lock(p, n) ==
    \/ curLock[p] = n /\ UNCHANGED lockVars
    \/ /\ curLock[p] # n /\ lockFile[n] = Nobody
       /\ lockFile' = [Released(p) EXCEPT ![n] = p]
       /\ curLock' = [curLock EXCEPT ![p] = n]

Unlock(p) ==
    /\ lockFile' = Released(p)
    /\ curLock' = [curLock EXCEPT ![p] = NoName]

\* assertLock looks whether there is a lock file, not whose it is.
LockFileExists(p) == HasLock(p) /\ lockFile[curLock[p]] # Nobody

\* The process dies; its lock file is stale from now on.
Abandon(p) ==
    /\ lockFile' = [n \in Names |-> IF lockFile[n] = p THEN Nobody ELSE lockFile[n]]
    /\ curLock' = [curLock EXCEPT ![p] = NoName]

\* Somebody deletes a lock file.
LoseLockFile(n) ==
    /\ lockFile[n] # Nobody
    /\ lockFile' = [lockFile EXCEPT ![n] = Nobody]
    /\ UNCHANGED curLock
-----------------------------------------------------------------------------
LockTypeOK ==
    /\ lockFile \in [Names -> Procs \union {Nobody}]
    /\ curLock \in [Procs -> Names \union {NoName}]
=============================================================================
